---- MODULE Spec2Model ----
(***************************************************************************)
(* GreenGlowWebfolio: the Express/Prisma API of the storefront.            *)
(*                                                                         *)
(* The state is the relational database (Product, Sale, SaleItem, Cart,    *)
(* CartItem rows) and the HTTP requests in flight.  An async handler runs  *)
(* between two awaits without interruption, so each action is one database *)
(* call of a handler together with the synchronous code around it; other   *)
(* requests interleave between the actions.  prisma.$transaction is one    *)
(* action: the engine makes its writes visible at commit or not at all.    *)
(***************************************************************************)
EXTENDS Integers, Sequences, FiniteSets, TLC

\* ------------------------------------------------------------------ bounds
NProcs      == 2    \* requests that may be in flight together
NUsers      == 2    \* authenticated identities (req.user.id)
MaxProducts == 2    \* Product rows ever created (SERIAL ids 1..MaxProducts)
MaxReqs     == 3    \* client requests admitted in one behaviour
MaxSeqReqs  == 3    \* client requests admitted when they run one at a time
MaxAdmin    == 1    \* admin requests admitted in one behaviour
InitStock   == 2    \* stock of the seeded products
MaxItems    == 2    \* entries of a request's item list

Procs == 1..NProcs
Users == 1..NUsers
Shopper == {1}          \* the user who sends every kind of request
Others  == Users \ Shopper   \* the users who only look at or fill their cart

Slugs       == {"a", "b"}
NoSlug      == ""               \* a slug field absent from the request body

\* JSON values of a request body, as far as the handlers tell them apart.
JNum(n) == [t |-> "number", n |-> n]
JUndef  == [t |-> "undefined", n |-> 0]     \* the field is absent
JText   == [t |-> "string", n |-> 0]        \* a string that is no number ("abc")
JFrac(n) == [t |-> "fraction", n |-> n]     \* the number n + 0.5

\* ------------------------------------------------------------------ state
VARIABLES
    db,     \* the database: products, sales, saleItems, carts, cartItems,
            \* users, reviews, faqs
    pc,     \* pc[p]: where request slot p stands in its handler
    req,    \* req[p]: the request slot p is serving
    loc,    \* loc[p]: the handler's local variables
    out,    \* the last HTTP response sent (or handler crash)
    nreq,   \* client requests (checkout, cart) admitted so far
    nadmin, \* admin requests admitted so far
    rx,     \* the last request that went through the auth middlewares
    calc    \* a computation of the server on its own: input and result

vars == <<db, pc, req, loc, out, nreq, nadmin, rx, calc>>

\* What the checkout, cart and catalog handlers never touch.
aux == <<rx, calc>>

\* ------------------------------------------------------------ JS helpers
\* Number(v): the number, or NaN for undefined and for a non-numeric string.
IsNaN(v)  == v.t \notin {"number", "fraction"}

\* Math.max(1, Number(qty) || 1) as a JS number: NaN and 0 are falsy and
\* give 1; n + 0.5 is at least 1 exactly when n >= 1.
Normalize(v) ==
    LET x == IF IsNaN(v) \/ (v.t = "number" /\ v.n = 0) THEN JNum(1) ELSE v
    IN  IF x.t = "number" THEN (IF x.n > 1 THEN x ELSE JNum(1))
        ELSE IF x.n >= 1 THEN x ELSE JNum(1)

\* The same for the bodies whose quantities are whole or not numbers.
NormQty(v) == Normalize(v).n

\* ------------------------------------------------------------ the database
Range(s) == {s[i] : i \in DOMAIN s}

RECURSIVE SumOver(_, _)
\* Sum of the integers f[x] for x in the finite set S.
SumOver(S, f) ==
    IF S = {} THEN 0
    ELSE LET x == CHOOSE y \in S : TRUE
         IN  f[x] + SumOver(S \ {x}, f)

LiveIds(d) == {i \in DOMAIN d.products : d.products[i].live}

\* prisma.product.findMany({ where: { slug: { in: slugs } } }): ids of the rows.
ProductFindManyBySlug(d, slugs) ==
    {i \in LiveIds(d) : d.products[i].slug \in slugs}

\* The unique index Product_slug_key: no other live row has the slug.
SlugFree(d, slug, except) ==
    \A i \in LiveIds(d) : i = except \/ d.products[i].slug # slug

ActiveCarts(d, u) ==
    {c \in DOMAIN d.carts : d.carts[c].userId = u /\ d.carts[c].status = "ACTIVE"}

\* Cart's @@unique([userId, status]): no two carts of a user share a status.
CartUniqueOk(carts) ==
    \A c1, c2 \in DOMAIN carts :
        (carts[c1].userId = carts[c2].userId /\ carts[c1].status = carts[c2].status)
            => c1 = c2

\* Lines of a cart, as the rows of CartItem.
CartLines(d, c) == {r \in d.cartItems : r.cartId = c}
LineOf(d, c, pid) == {r \in d.cartItems : r.cartId = c /\ r.productId = pid}

\* A write's outcome: the database after it, or the failure (ok = FALSE, the
\* database as it was before the failing statement).
Ok(d)         == [ok |-> TRUE,  code |-> "", db |-> d]
Fail(d, code) == [ok |-> FALSE, code |-> code, db |-> d]

\* tx.sale.create({ data: { total, userId } })
SaleCreate(d, total, userId) ==
    Ok([d EXCEPT !.sales = Append(@, [userId |-> userId, total |-> total])])

\* The price copied from the product row as it is when the item is written.
SaleItemCreateLivePrice(d, saleId, pid, qty, price) ==
    IF pid \in LiveIds(d)
    THEN Ok([d EXCEPT !.saleItems = @ \cup
                {[saleId |-> saleId, productId |-> pid, qty |-> qty,
                  price |-> d.products[pid].price]}])
    ELSE Fail(d, "P2003")

\* tx.saleItem.create: the row references its product (foreign key).
SaleItemCreate(d, saleId, pid, qty, price) ==
    IF pid \in LiveIds(d)
    THEN Ok([d EXCEPT !.saleItems = @ \cup
                {[saleId |-> saleId, productId |-> pid, qty |-> qty, price |-> price]}])
    ELSE Fail(d, "P2003")

\* A decrement that refuses to take the stock below zero.
ProductDecrementGuarded(d, pid, q) ==
    IF pid \in LiveIds(d) /\ d.products[pid].stock >= q
    THEN Ok([d EXCEPT !.products[pid].stock = @ - q])
    ELSE Fail(d, "P2025")

\* A checkout that records the sale and leaves the stock as it is.
ProductDecrementNone(d, pid, q) == Ok(d)

\* tx.product.update({ where: { id }, data: { stock: { decrement: q } } }):
\* UPDATE ... SET stock = stock - q on the row as it is now; P2025 if it is gone.
ProductDecrement(d, pid, q) ==
    IF pid \in LiveIds(d)
    THEN Ok([d EXCEPT !.products[pid].stock = @ - q])
    ELSE Fail(d, "P2025")

\* A checkout that leaves the cart as it is.
CartCloseNone(d, u) == Ok(d)

\* tx.cart.updateMany({ where: { userId, status: 'ACTIVE' },
\*                      data: { status: 'CHECKED_OUT' } })
CartCloseActive(d, u) ==
    LET closed == [c \in DOMAIN d.carts |->
                     IF c \in ActiveCarts(d, u)
                     THEN [d.carts[c] EXCEPT !.status = "CHECKED_OUT"]
                     ELSE d.carts[c]]
    IN  IF CartUniqueOk(closed) THEN Ok([d EXCEPT !.carts = closed]) ELSE Fail(d, "P2002")

\* The writes of fn applied one by one with no transaction around them.
TransactionNoRollback(d, r) == r.db

\* prisma.$transaction(fn): fn's writes are committed together when fn
\* returns, and all of them are rolled back when fn throws.
Transaction(d, r) == IF r.ok THEN r.db ELSE d

\* ---------------------------------------------------------------- requests
NoReq == [op |-> "none", user |-> 0, items |-> <<>>]
NoLoc == [snap |-> <<>>, total |-> 0, cart |-> 0, before |-> {}, existing |-> 0, i |-> 0]
NoLines == {}

\* res.status(status).json({ error }) or, with error "", the success body.
Response(op, status, error) ==
    [op |-> op, status |-> status, error |-> error, cart |-> 0, lines |-> NoLines]

\* The handler returns: the slot is free again.
Finish(p) ==
    /\ pc'  = [pc EXCEPT ![p] = "idle"]
    /\ req' = [req EXCEPT ![p] = NoReq]
    /\ loc' = [loc EXCEPT ![p] = NoLoc]

\* A handler whose promise rejects outside any try/catch: no response is sent.
\* error is the code of the Prisma error thrown.
Crash(op, code) == Response(op, 0, code)

\* The same rejection under a router that forwards it to the default error
\* handler (Express 5): the client gets a bare 500.
CrashHandled(op, code) == Response(op, 500, code)

\* The Express version is not pinned in the sources: either may happen.
CrashOutcomes(op, code) == {Crash(op, code), CrashHandled(op, code)}

\* ------------------------------------------------------ POST /api/checkout
QtyInputs == {JUndef, JNum(2)}

CheckoutItem == [slug : Slugs, productId : {JUndef}, qty : QtyInputs]

CheckoutBodies ==
    UNION {[1..n -> CheckoutItem] : n \in 0..MaxItems}

ItemSlugs(items) == {items[k].slug : k \in DOMAIN items}

\* bySlug: the products as read by findMany, keyed by slug.
BySlug(d, found) ==
    [s \in {d.products[i].slug : i \in found} |->
        LET i == CHOOSE j \in found : d.products[j].slug = s
        IN  [id |-> i, price |-> d.products[i].price, stock |-> d.products[i].stock]]

\* The stock check left out.
FirstShortNone(items, bySlug) == 0

\* Lines 96-100: the first item whose quantity exceeds the stock read, or 0.
FirstShort(items, bySlug) ==
    LET short == {k \in DOMAIN items : bySlug[items[k].slug].stock < NormQty(items[k].qty)}
    IN  IF short = {} THEN 0 ELSE CHOOSE k \in short : \A j \in short : k <= j

\* Lines 101-104: total = sum of price read * normalized quantity.
RECURSIVE CheckoutTotal(_, _)
CheckoutTotal(items, bySlug) ==
    IF items = <<>> THEN 0
    ELSE bySlug[Head(items).slug].price * NormQty(Head(items).qty)
         + CheckoutTotal(Tail(items), bySlug)

\* Lines 84-100: "" when the request passes validation, else the error of
\* the 400 response.
CheckoutValidate(d, items) ==
    LET found == ProductFindManyBySlug(d, ItemSlugs(items))
    IN  IF Len(items) = 0 THEN "Empty cart"
        ELSE IF Cardinality(found) # Len(items) THEN "Unknown product in cart"
        ELSE IF FirstShort(items, BySlug(d, found)) # 0 THEN "Insufficient stock"
        ELSE ""

\* Lines 112-124: the loop over the items inside the transaction.
RECURSIVE TxItems(_, _, _, _)
TxItems(r, saleId, items, bySlug) ==
    IF items = <<>> \/ ~r.ok THEN r
    ELSE LET p  == bySlug[Head(items).slug]
             q  == NormQty(Head(items).qty)
             r1 == SaleItemCreate(r.db, saleId, p.id, q, p.price)
             r2 == IF r1.ok THEN ProductDecrement(r1.db, p.id, q) ELSE r1
         IN  TxItems(r2, saleId, Tail(items), bySlug)

\* Lines 107-132: the function run by prisma.$transaction.
TxBody(d, user, items, bySlug, total) ==
    LET r0 == SaleCreate(d, total, user)
        r1 == TxItems(r0, Len(r0.db.sales), items, bySlug)
    IN  IF r1.ok THEN CartCloseActive(r1.db, user) ELSE r1

\* The request arrives; lines 84-104 run up to the transaction.
CheckoutLookup(p, users) ==
    /\ pc[p] = "idle"
    /\ \E u \in users, items \in CheckoutBodies :
         LET st    == CheckoutValidate(db, items)
             found == ProductFindManyBySlug(db, ItemSlugs(items))
             snap  == BySlug(db, found)
         IN  IF st # ""
             THEN /\ out' = Response("checkout", 400, st)
                  /\ UNCHANGED <<pc, req, loc>>
             ELSE /\ pc'  = [pc EXCEPT ![p] = "ck_tx"]
                  /\ req' = [req EXCEPT ![p] = [op |-> "checkout", user |-> u, items |-> items]]
                  /\ loc' = [loc EXCEPT ![p] = [NoLoc EXCEPT !.snap = snap,
                                                  !.total = CheckoutTotal(items, snap)]]
                  /\ UNCHANGED out
    /\ nreq' = nreq + 1
    /\ UNCHANGED <<db, nadmin>>

\* Lines 107-138: the transaction, then the response (500 from the catch).
CheckoutTx(p) ==
    /\ pc[p] = "ck_tx"
    /\ LET r == TxBody(db, req[p].user, req[p].items, loc[p].snap, loc[p].total)
       IN  /\ db'  = Transaction(db, r)
           /\ out' = IF r.ok THEN Response("checkout", 200, "")
                          ELSE Response("checkout", 500, "Checkout failed")
    /\ Finish(p)
    /\ UNCHANGED <<nreq, nadmin>>

\* ------------------------------------------------------------ cart routes
ProductIdInputs == {JUndef} \cup {JNum(i) : i \in 1..MaxProducts}

CartItemBody == [slug : {NoSlug}, productId : ProductIdInputs \ {JUndef}, qty : QtyInputs]

CartBodies(op) ==
    CASE op = "add"    -> [1..1 -> [slug : {NoSlug}, productId : ProductIdInputs, qty : QtyInputs]]
      [] op = "qty"    -> [1..1 -> CartItemBody]
      [] op = "remove" -> [1..1 -> [slug : {NoSlug}, productId : ProductIdInputs \ {JUndef},
                                    qty : {JUndef}]]
      [] op = "merge"  -> UNION {[1..n -> CartItemBody] : n \in 0..MaxItems}
      [] OTHER         -> {<<>>}

CartOps == {"get", "add", "qty", "remove", "clear", "merge"}

\* The cart as a response carries it: its id and its lines (include: items).
CartView(d, c) == {[productId |-> r.productId, qty |-> r.qty] : r \in CartLines(d, c)}

CartResponse(d, op, c) ==
    [op |-> op, status |-> 200, error |-> "", cart |-> c, lines |-> CartView(d, c)]

\* Where a cart handler goes once getOrCreateActiveCart has returned.
AfterCart(op, items) ==
    CASE op = "add"    -> "add_find"
      [] op = "qty"    -> "qty_write"
      [] op = "remove" -> "remove_write"
      [] op = "clear"  -> "clear_write"
      [] op = "merge"  -> IF Len(items) = 0 THEN "cart_read" ELSE "merge_find"
      [] OTHER         -> "idle"

\* A cart table without the unique index.
CartCreateNoIndex(d, u) ==
    Ok([d EXCEPT !.carts = Append(@, [userId |-> u, status |-> "ACTIVE"])])

\* prisma.cart.create({ data: { userId } }): a new ACTIVE cart, refused by
\* the unique index when the user already has one.
CartCreate(d, u) ==
    LET carts2 == Append(d.carts, [userId |-> u, status |-> "ACTIVE"])
    IN  IF CartUniqueOk(carts2) THEN Ok([d EXCEPT !.carts = carts2]) ELSE Fail(d, "P2002")

\* prisma.cartItem.create: refused by the unique index (cartId, productId)
\* and by the foreign key to Product.
CartItemCreate(d, c, pid, q) ==
    IF LineOf(d, c, pid) # {} THEN Fail(d, "P2002")
    ELSE IF pid \notin LiveIds(d) THEN Fail(d, "P2003")
    ELSE Ok([d EXCEPT !.cartItems = @ \cup {[cartId |-> c, productId |-> pid, qty |-> q]}])

\* prisma.cartItem.update({ where: { cartId_productId }, data: { qty } }):
\* P2025 when the row is gone.
CartItemUpdate(d, c, pid, q) ==
    IF LineOf(d, c, pid) = {} THEN Fail(d, "P2025")
    ELSE Ok([d EXCEPT !.cartItems = (@ \ LineOf(d, c, pid))
                        \cup {[cartId |-> c, productId |-> pid, qty |-> q]}])

\* prisma.cartItem.delete({ where: { cartId_productId } }): P2025 when gone.
CartItemDelete(d, c, pid) ==
    IF LineOf(d, c, pid) = {} THEN Fail(d, "P2025")
    ELSE Ok([d EXCEPT !.cartItems = @ \ LineOf(d, c, pid)])

\* An add that writes the requested quantity over the line it found.
AddUpsertOverwrite(d, c, pid, existing, q) ==
    IF existing # 0 THEN CartItemUpdate(d, c, pid, q)
    ELSE CartItemCreate(d, c, pid, q)

\* POST /cart/add, lines 84-93, the "manual upsert": increment the line read
\* by findUnique (existing = its qty, 0 when null), else insert.
AddUpsert(d, c, pid, existing, q) ==
    IF existing # 0 THEN CartItemUpdate(d, c, pid, existing + q)
    ELSE CartItemCreate(d, c, pid, q)

\* A merge that writes the guest quantity over the line it found.
MergeUpsertOverwrite(d, c, pid, existing, q) ==
    IF existing # 0 THEN CartItemUpdate(d, c, pid, q)
    ELSE CartItemCreate(d, c, pid, q)

\* POST /cart/merge, lines 170-179: the same upsert for one guest item.
MergeUpsert(d, c, pid, existing, q) ==
    IF existing # 0 THEN CartItemUpdate(d, c, pid, existing + q)
    ELSE CartItemCreate(d, c, pid, q)

\* The request arrives; the handler runs to findFirst in getOrCreateActiveCart
\* (POST /cart/add answers 400 before it when productId is missing).
CartArrives(p, u, op, items) ==
    /\ pc[p] = "idle"
    /\     IF op = "add" /\ items[1].productId = JUndef
           THEN /\ out' = Response(op, 400, "productId requis")
                /\ UNCHANGED <<pc, req, loc>>
           ELSE LET found == ActiveCarts(db, u)
                    c     == IF found = {} THEN 0 ELSE CHOOSE x \in found : TRUE
                    next  == IF c = 0 THEN "goc_create" ELSE AfterCart(op, items)
                IN  /\ pc' = [pc EXCEPT ![p] = next]
                    /\ IF next = "idle"
                       THEN /\ out' = CartResponse(db, op, c)
                            /\ UNCHANGED <<req, loc>>
                       ELSE /\ req' = [req EXCEPT ![p] = [op |-> op, user |-> u, items |-> items]]
                            /\ loc' = [loc EXCEPT ![p] = [NoLoc EXCEPT !.cart = c, !.i = 1,
                                                            !.before = CartView(db, c)]]
                            /\ UNCHANGED out
    /\ nreq' = nreq + 1
    /\ UNCHANGED <<db, nadmin>>

\* A cart request of one of the users, for one of the operations, with any
\* body.
CartRequest(p, users, ops) ==
    \E u \in users, op \in ops : \E items \in CartBodies(op) : CartArrives(p, u, op, items)

\* getOrCreateActiveCart, lines 50-55: no ACTIVE cart was found, create one.
GocCreate(p) ==
    /\ pc[p] = "goc_create"
    /\ LET r    == CartCreate(db, req[p].user)
           c    == Len(r.db.carts)
           next == AfterCart(req[p].op, req[p].items)
       IN  /\ db' = r.db
           /\ IF ~r.ok
              THEN /\ out' \in CrashOutcomes(req[p].op, r.code)
                   /\ Finish(p)
              ELSE IF next = "idle"
              THEN /\ out' = CartResponse(r.db, req[p].op, c)
                   /\ Finish(p)
              ELSE /\ pc'  = [pc EXCEPT ![p] = next]
                   /\ loc' = [loc EXCEPT ![p].cart = c]
                   /\ UNCHANGED <<req, out>>
    /\ UNCHANGED <<nreq, nadmin>>

\* The qty of the line (cartId, productId) as findUnique reads it, 0 for null.
LineQty(d, c, pid) ==
    IF LineOf(d, c, pid) = {} THEN 0 ELSE (CHOOSE r \in LineOf(d, c, pid) : TRUE).qty

\* POST /cart/add, lines 80-82: findUnique of the line.
AddFind(p) ==
    /\ pc[p] = "add_find"
    /\ loc' = [loc EXCEPT ![p].existing = LineQty(db, loc[p].cart, req[p].items[1].productId.n)]
    /\ pc'  = [pc EXCEPT ![p] = "add_write"]
    /\ UNCHANGED <<db, req, out, nreq, nadmin>>

\* POST /cart/add, lines 84-93: update or create.
AddWrite(p) ==
    /\ pc[p] = "add_write"
    /\ LET it == req[p].items[1]
           r  == AddUpsert(db, loc[p].cart, it.productId.n, loc[p].existing, NormQty(it.qty))
       IN  /\ db' = r.db
           /\ IF r.ok
              THEN /\ pc' = [pc EXCEPT ![p] = "cart_read"]
                   /\ UNCHANGED <<req, loc, out>>
              ELSE /\ out' \in CrashOutcomes(req[p].op, r.code)
                   /\ Finish(p)
    /\ UNCHANGED <<nreq, nadmin>>

\* POST /cart/merge, lines 166-168: findUnique of the line of guest item i.
MergeFind(p) ==
    /\ pc[p] = "merge_find"
    /\ loc' = [loc EXCEPT ![p].existing =
                  LineQty(db, loc[p].cart, req[p].items[loc[p].i].productId.n)]
    /\ pc'  = [pc EXCEPT ![p] = "merge_write"]
    /\ UNCHANGED <<db, req, out, nreq, nadmin>>

\* POST /cart/merge, lines 170-179: update or create, then the next guest item.
MergeWrite(p) ==
    /\ pc[p] = "merge_write"
    /\ LET it == req[p].items[loc[p].i]
           r  == MergeUpsert(db, loc[p].cart, it.productId.n, loc[p].existing, NormQty(it.qty))
       IN  /\ db' = r.db
           /\ IF r.ok
              THEN /\ pc'  = [pc EXCEPT ![p] =
                                IF loc[p].i = Len(req[p].items) THEN "cart_read" ELSE "merge_find"]
                   /\ loc' = [loc EXCEPT ![p].i = @ + 1, ![p].existing = 0]
                   /\ UNCHANGED <<req, out>>
              ELSE /\ out' \in CrashOutcomes(req[p].op, r.code)
                   /\ Finish(p)
    /\ UNCHANGED <<nreq, nadmin>>

\* PATCH /cart/qty, lines 111-114.
QtyWrite(p) ==
    /\ pc[p] = "qty_write"
    /\ LET it == req[p].items[1]
           r  == CartItemUpdate(db, loc[p].cart, it.productId.n, NormQty(it.qty))
       IN  /\ db' = r.db
           /\ IF r.ok
              THEN /\ pc' = [pc EXCEPT ![p] = "cart_read"]
                   /\ UNCHANGED <<req, loc, out>>
              ELSE /\ out' \in CrashOutcomes(req[p].op, r.code)
                   /\ Finish(p)
    /\ UNCHANGED <<nreq, nadmin>>

\* DELETE /cart/item/:productId, lines 131-133.
RemoveWrite(p) ==
    /\ pc[p] = "remove_write"
    /\ LET r == CartItemDelete(db, loc[p].cart, req[p].items[1].productId.n)
       IN  /\ db' = r.db
           /\ IF r.ok
              THEN /\ pc' = [pc EXCEPT ![p] = "cart_read"]
                   /\ UNCHANGED <<req, loc, out>>
              ELSE /\ out' \in CrashOutcomes(req[p].op, r.code)
                   /\ Finish(p)
    /\ UNCHANGED <<nreq, nadmin>>

\* DELETE /cart/clear, lines 148-149: deleteMany, then { ok: true }.
ClearWrite(p) ==
    /\ pc[p] = "clear_write"
    /\ db'  = [db EXCEPT !.cartItems = @ \ CartLines(db, loc[p].cart)]
    /\ out' = Response(req[p].op, 200, "")
    /\ Finish(p)
    /\ UNCHANGED <<nreq, nadmin>>

\* The final findUnique of the cart with its items, sent as the response.
CartRead(p) ==
    /\ pc[p] = "cart_read"
    /\ out' = CartResponse(db, req[p].op, loc[p].cart)
    /\ Finish(p)
    /\ UNCHANGED <<db, nreq, nadmin>>

\* ------------------------------------------------- admin product routes
PriceInputs == {JUndef, JNum(2)}
StockInputs == {JUndef, JText, JNum(-1), JNum(InitStock)}

\* A row of SaleItem or CartItem references the product: the foreign keys
\* keep the product row from being deleted.
ProductReferenced(d, id) ==
    \/ \E r \in d.saleItems : r.productId = id
    \/ \E r \in d.cartItems : r.productId = id

\* POST /api/admin/products, lines 79-102.
AdminCreateResult(d, slug, price, stock) ==
    IF slug = NoSlug THEN [status |-> 400, db |-> d]
    ELSE IF IsNaN(price) /\ price # JUndef THEN [status |-> 500, db |-> d]
    ELSE IF ~SlugFree(d, slug, 0) THEN [status |-> 409, db |-> d]
    ELSE [status |-> 201,
          db |-> [d EXCEPT !.products = Append(@,
                    [live  |-> TRUE,
                     slug  |-> slug,
                     price |-> IF price = JUndef THEN 0 ELSE price.n,
                     stock |-> IF IsNaN(stock) THEN 0 ELSE stock.n])]]

\* A price edit that also rewrites the price of the product's sale items.
AdminPatchRewritesSales(d, id, slug, price, stock) ==
    IF price = JUndef \/ IsNaN(price) \/ id \notin LiveIds(d)
    THEN [status |-> 404, db |-> d]
    ELSE [status |-> 200,
          db |-> [d EXCEPT !.products[id].price = price.n,
                           !.saleItems = {IF r.productId = id
                                          THEN [r EXCEPT !.price = price.n] ELSE r : r \in @}]]

\* PATCH /api/admin/products/:id, lines 109-132: only the fields present in
\* the body are written.
AdminPatchResult(d, id, slug, price, stock) ==
    IF (price # JUndef /\ IsNaN(price)) \/ (stock # JUndef /\ IsNaN(stock))
    THEN [status |-> 500, db |-> d]
    ELSE IF id \notin LiveIds(d) THEN [status |-> 404, db |-> d]
    ELSE IF slug # NoSlug /\ ~SlugFree(d, slug, id) THEN [status |-> 409, db |-> d]
    ELSE [status |-> 200,
          db |-> [d EXCEPT !.products[id] =
                    [live  |-> TRUE,
                     slug  |-> IF slug = NoSlug THEN @.slug ELSE slug,
                     price |-> IF price = JUndef THEN @.price ELSE price.n,
                     stock |-> IF stock = JUndef THEN @.stock ELSE stock.n]]]

\* DELETE /api/admin/products/:id, lines 139-149.
AdminDeleteResult(d, id) ==
    IF id \notin LiveIds(d) THEN [status |-> 404, db |-> d]
    ELSE IF ProductReferenced(d, id) THEN [status |-> 500, db |-> d]
    ELSE [status |-> 200, db |-> [d EXCEPT !.products[id].live = FALSE]]

AdminCreate ==
    /\ Len(db.products) < MaxProducts
    /\ \E slug \in Slugs \cup {NoSlug}, price \in PriceInputs, stock \in StockInputs :
         LET r == AdminCreateResult(db, slug, price, stock)
         IN  /\ db'  = r.db
             /\ out' = Response("admin_create", r.status, "")
    /\ nadmin' = nadmin + 1
    /\ UNCHANGED <<pc, req, loc, nreq>>

AdminPatch ==
    /\ \E id \in 1..MaxProducts, slug \in Slugs \cup {NoSlug},
          price \in PriceInputs, stock \in StockInputs :
         LET r == AdminPatchResult(db, id, slug, price, stock)
         IN  /\ db'  = r.db
             /\ out' = Response("admin_patch", r.status, "")
    /\ nadmin' = nadmin + 1
    /\ UNCHANGED <<pc, req, loc, nreq>>

AdminDelete ==
    /\ \E id \in 1..MaxProducts :
         LET r == AdminDeleteResult(db, id)
         IN  /\ db'  = r.db
             /\ out' = Response("admin_delete", r.status, "")
    /\ nadmin' = nadmin + 1
    /\ UNCHANGED <<pc, req, loc, nreq>>

\* ------------------------------------------------------------------- spec
\* bcrypt.hash(password, 12): the stored value is not the password.
Hash(pw) == [bcrypt |-> pw]

\* bcrypt.compare(password, hash)
Compare(pw, hash) == hash = Hash(pw)

\* seed.js: users are created by upsert on email; user 1 is a customer and
\* user 2 the administrator.
SeedUsers ==
    <<[email |-> "alice", name |-> "Alice", password |-> Hash("pw1"), admin |-> FALSE],
      [email |-> "admin", name |-> "Admin", password |-> Hash("pw2"), admin |-> TRUE]>>

\* seed.js, lines 132-140: the published demo reviews (one is enough here).
SeedReviews ==
    <<[live |-> TRUE, stars |-> 5, published |-> TRUE, userId |-> 1, productId |-> 1]>>

\* seed.js, lines 115-122.
SeedFaqs == <<[live |-> TRUE, question |-> "q", published |-> TRUE]>>

NoCalc == [fn |-> "none"]

\* ------------------------------------------------- the auth middlewares
\* The auth cookie of a request: none, a token jwt.verify refuses (bad
\* signature or expired, whatever its payload claims), or a token signed by
\* setAuthCookie with the payload { id, email, admin }.
NoCred  == [kind |-> "none", id |-> 0, email |-> "", admin |-> FALSE]
BadCred == [kind |-> "invalid", id |-> 2, email |-> "admin", admin |-> TRUE]
Token(id, email, admin) == [kind |-> "token", id |-> id, email |-> email, admin |-> admin]

NoRx == [route |-> "none", cred |-> NoCred]

Pass == [status |-> 0, error |-> ""]
Deny(status, error) == [status |-> status, error |-> error]

\* req.user once the middlewares before the handler have run: the verified
\* payload, undefined (NoCred) when no requireAuth has set it.
ReqUser(c) == IF c.kind = "token" THEN c ELSE NoCred


\* requireAuth, User.js lines 194-203.
RequireAuth(c) ==
    IF c.kind = "none" THEN Deny(401, "Unauthenticated")
    ELSE IF c.kind # "token" THEN Deny(401, "Invalid token")
    ELSE Pass

\* A requireAdmin that lets every request through.
RequireAdminOpen(user) == Pass

\* requireAdmin, User.js lines 209-212: !req.user?.admin.
RequireAdmin(user) ==
    IF ~user.admin THEN Deny(403, "Forbidden") ELSE Pass

AdminProductRoutes == {"admin_create", "admin_patch", "admin_delete"}
AdminUserRoutes    == {"admin_user_patch", "admin_reset"}
FaqAdminRoutes     == {"faq_create", "faq_patch", "faq_delete"}
ReviewAdminRoutes  == {"review_patch", "review_delete"}
UserRoutes         == CartOps \cup {"checkout", "me_patch"}

\* The middlewares in front of each handler: router.use(requireAuth,
\* requireAdmin) in AdminProducts.js and AdminUsers.js, the route's own
\* arguments elsewhere.
GuardsOf(route) ==
    IF route \in AdminProductRoutes \cup AdminUserRoutes
                 \cup FaqAdminRoutes \cup ReviewAdminRoutes
    THEN <<"requireAuth", "requireAdmin">>
    ELSE IF route \in UserRoutes THEN <<"requireAuth">>
    ELSE <<>>

\* Express runs the middlewares in order; the first that responds ends the
\* request.  The result is Pass when the handler is reached.
Middleware(route, c) ==
    LET g == GuardsOf(route)
        a == IF Len(g) >= 1 THEN RequireAuth(c) ELSE Pass
    IN  IF a # Pass THEN a
        ELSE IF Len(g) >= 2 THEN RequireAdmin(ReqUser(c)) ELSE Pass

\* A response with the Set-Cookie it carries (NoCred: none) and the user
\* of its body (0: none).
Reply(op, status, error, user, cookie) ==
    [op |-> op, status |-> status, error |-> error, cart |-> 0, lines |-> NoLines,
     user |-> user, cookie |-> cookie]

\* ------------------------------------------------- one-call handlers
\* What a handler with a single database call comes to: the response it
\* sends, or (threw) a rejection that nothing in the handler catches.
Done(d, status, error) ==
    [threw |-> FALSE, status |-> status, error |-> error, db |-> d,
     user |-> 0, cookie |-> NoCred]
Threw(d, code) ==
    [threw |-> TRUE, status |-> 0, error |-> code, db |-> d,
     user |-> 0, cookie |-> NoCred]

\* A boolean field of a body: absent, or coerced by !!.
FlagInputs == {"absent", "true", "false"}
Flag(old, f) == IF f = "absent" THEN old ELSE f = "true"

LiveRows(t) == {i \in DOMAIN t : t[i].live}

\* ---------------------------------------------------------------- Faq.js
\* POST /faqs, lines 38-47.
FaqCreateResult(d, question) ==
    IF question = "" THEN Done(d, 400, "question et answer requis")
    ELSE Done([d EXCEPT !.faqs = Append(@, [live |-> TRUE, question |-> question,
                                           published |-> TRUE])], 201, "")

\* PATCH /faqs/:id, lines 55-68: prisma.faq.update throws P2025 for an
\* unknown id and the handler has no try/catch.
FaqPatchResult(d, id, published) ==
    IF id \notin LiveRows(d.faqs) THEN Threw(d, "P2025")
    ELSE Done([d EXCEPT !.faqs[id].published = Flag(@, published)], 200, "")

\* DELETE /faqs/:id, lines 74-78.
FaqDeleteResult(d, id) ==
    IF id \notin LiveRows(d.faqs) THEN Threw(d, "P2025")
    ELSE Done([d EXCEPT !.faqs[id].live = FALSE], 200, "")

\* ------------------------------------------------------------- Review.js
StarsInputs == {JUndef, JText, JNum(-1), JNum(0), JNum(3), JNum(6), JFrac(2), JFrac(5)}

\* s < 1 || s > 5, every comparison with NaN being false.
StarsOutOfRange(s) ==
    IF IsNaN(s) THEN FALSE
    ELSE IF s.t = "number" THEN s.n < 1 \/ s.n > 5
    ELSE s.n < 1 \/ s.n >= 5

\* !s: NaN and 0 are falsy.
StarsFalsy(s) == IsNaN(s) \/ s = JNum(0)

\* The Review table: stars is INTEGER (first migration, line 19); userId and
\* productId are NOT NULL without default (migration add_review_user_fk,
\* lines 12-13).  Prisma refuses a create without them and refuses a value
\* that is no integer for stars.
ReviewColumnsOk(data) ==
    /\ "stars" \in DOMAIN data => data.stars.t = "number"
ReviewCreate(d, data) ==
    IF ~({"userId", "productId"} \subseteq DOMAIN data) \/ ~ReviewColumnsOk(data)
    THEN Fail(d, "validation")
    ELSE Ok([d EXCEPT !.reviews = Append(@, [live |-> TRUE, stars |-> data.stars.n,
                 published |-> data.published, userId |-> data.userId,
                 productId |-> data.productId])])

\* GET /reviews, lines 23-29: where: { published: true }.
ReviewList(d) == {i \in LiveRows(d.reviews) : d.reviews[i].published}

\* POST /reviews, lines 38-53 (no try/catch).
ReviewPostResult(d, name, stars) ==
    IF name = "" \/ StarsFalsy(stars) THEN Done(d, 400, "name, text, stars requis")
    ELSE IF StarsOutOfRange(stars) THEN Done(d, 400, "stars doit etre entre 1 et 5")
    ELSE LET r == ReviewCreate(d, [stars |-> stars, published |-> FALSE])
         IN  IF r.ok THEN Done(r.db, 201, "") ELSE Threw(d, r.code)

\* PATCH /reviews/:id, lines 60-78 (no try/catch).
ReviewPatchResult(d, id, stars, published) ==
    IF stars # JUndef /\ StarsOutOfRange(stars)
    THEN Done(d, 400, "stars doit etre entre 1 et 5")
    ELSE IF stars # JUndef /\ ~ReviewColumnsOk([stars |-> stars]) THEN Threw(d, "validation")
    ELSE IF id \notin LiveRows(d.reviews) THEN Threw(d, "P2025")
    ELSE Done([d EXCEPT !.reviews[id].stars = IF stars = JUndef THEN @ ELSE stars.n,
                        !.reviews[id].published = Flag(@, published)], 200, "")

\* DELETE /reviews/:id, lines 84-88.
ReviewDeleteResult(d, id) ==
    IF id \notin LiveRows(d.reviews) THEN Threw(d, "P2025")
    ELSE Done([d EXCEPT !.reviews[id].live = FALSE], 200, "")

\* ---------------------------------------------------------- AdminUsers.js
NoEmail == ""
ShortPasswords == {"", "short"}     \* !newPassword || length < 6

EmailFree(d, email, except) ==
    \A i \in DOMAIN d.users : i # except => d.users[i].email # email

\* PATCH /admin/users/:id, lines 66-89.
AdminUserPatchResult(d, id, email, admin) ==
    IF id \notin DOMAIN d.users THEN Done(d, 404, "Utilisateur introuvable")
    ELSE IF email # NoEmail /\ ~EmailFree(d, email, id) THEN Done(d, 409, "Email deja utilise")
    ELSE Done([d EXCEPT !.users[id].email = IF email = NoEmail THEN @ ELSE email,
                        !.users[id].admin = Flag(@, admin)], 200, "")

\* POST /admin/users/:id/reset-password, lines 99-118.
AdminResetResult(d, id, newPassword) ==
    IF newPassword \in ShortPasswords THEN Done(d, 400, "Nouveau mot de passe invalide")
    ELSE IF id \notin DOMAIN d.users THEN Done(d, 404, "Utilisateur introuvable")
    ELSE Done([d EXCEPT !.users[id].password = Hash(newPassword)], 200, "")

\* --------------------------------------------------------------- User.js
NoPassword == ""
NoName == ""

UserByEmail(d, email) == {i \in DOMAIN d.users : d.users[i].email = email}

\* prisma.user.create, lines 233-236; email is the unique key findUnique and
\* the seed's upsert look users up by.
UserCreate(d, email, hash) ==
    IF ~EmailFree(d, email, 0) THEN Fail(d, "P2002")
    ELSE Ok([d EXCEPT !.users = Append(@, [email |-> email, name |-> NoName,
                                          password |-> hash, admin |-> FALSE])])

\* prisma.user.update of PATCH /me, lines 336-340.
UserUpdate(d, id, data) ==
    IF data.email # NoEmail /\ ~EmailFree(d, data.email, id) THEN Fail(d, "P2002")
    ELSE Ok([d EXCEPT !.users[id].email = IF data.email = NoEmail THEN @ ELSE data.email,
                      !.users[id].name  = IF data.name = NoName THEN @ ELSE data.name,
                      !.users[id].password =
                            IF data.password = NoPassword THEN @ ELSE Hash(data.password)])

\* POST /register, lines 225-230: validation and findUnique.
RegisterFind(p) ==
    /\ pc[p] = "idle"
    /\ \E email \in {NoEmail, "alice", "bob"}, password \in {NoPassword, "pw9"} :
         /\ rx' = [route |-> "register", cred |-> NoCred,
                   email |-> email, password |-> password]
         /\ IF email = NoEmail \/ password = NoPassword
            THEN /\ out' = Reply("register", 400, "email et password requis", 0, NoCred)
                 /\ UNCHANGED <<pc, req, loc>>
            ELSE IF UserByEmail(db, email) # {}
            THEN /\ out' = Reply("register", 409, "Email deja utilise", 0, NoCred)
                 /\ UNCHANGED <<pc, req, loc>>
            ELSE /\ pc'  = [pc EXCEPT ![p] = "reg_create"]
                 /\ req' = [req EXCEPT ![p] = [op |-> "register", user |-> 0, items |-> <<>>,
                                               email |-> email, password |-> password]]
                 /\ UNCHANGED <<loc, out>>
    /\ nreq' = nreq + 1
    /\ UNCHANGED <<db, nadmin, calc>>

\* POST /register, lines 232-244: hash, create, cookie, 201; any rejection
\* goes to the catch and is answered 500.
RegisterCreate(p) ==
    /\ pc[p] = "reg_create"
    /\ LET r  == UserCreate(db, req[p].email, Hash(req[p].password))
           id == Len(r.db.users)
       IN  /\ db' = r.db
           /\ out' = IF r.ok
                     THEN Reply("register", 201, "", id, Token(id, req[p].email, FALSE))
                     ELSE Reply("register", 500, "Server error", 0, NoCred)
    /\ Finish(p)
    /\ UNCHANGED <<nreq, nadmin, aux>>

\* A login that tells an unknown email from a wrong password.
LoginResultTelling(d, email, password) ==
    LET found == UserByEmail(d, email)
        id    == CHOOSE i \in found : TRUE
    IN  IF email = NoEmail \/ password = NoPassword
        THEN Done(d, 400, "email et password requis")
        ELSE IF found = {} THEN Done(d, 404, "Utilisateur introuvable")
        ELSE IF ~Compare(password, d.users[id].password)
        THEN Done(d, 401, "Identifiants invalides")
        ELSE [Done(d, 200, "") EXCEPT !.user = id,
                 !.cookie = Token(id, email, d.users[id].admin)]

\* POST /login, lines 253-271.
LoginResult(d, email, password) ==
    LET found == UserByEmail(d, email)
        id    == CHOOSE i \in found : TRUE
    IN  IF email = NoEmail \/ password = NoPassword
        THEN Done(d, 400, "email et password requis")
        ELSE IF found = {} THEN Done(d, 401, "Identifiants invalides")
        ELSE IF ~Compare(password, d.users[id].password)
        THEN Done(d, 401, "Identifiants invalides")
        ELSE [Done(d, 200, "") EXCEPT !.user = id,
                 !.cookie = Token(id, email, d.users[id].admin)]

LoginEmails    == {NoEmail, "alice", "bob"}
LoginPasswords == {NoPassword, "pw1", "wrong"}

LoginAs(emails, passwords) ==
    /\ \E email \in emails, password \in passwords :
         LET r == LoginResult(db, email, password)
         IN  /\ out' = Reply("login", r.status, r.error, r.user, r.cookie)
             /\ rx'  = [route |-> "login", cred |-> NoCred,
                        email |-> email, password |-> password]
    /\ nreq' = nreq + 1
    /\ UNCHANGED <<db, pc, req, loc, nadmin, calc>>

Login == LoginAs(LoginEmails, LoginPasswords)

\* The body of PATCH /me.
MeBodies ==
    [name : {NoName, "Zed"}, email : {NoEmail, "alice", "admin", "bob"},
     currentPassword : {NoPassword, "pw1", "wrong"}, newPassword : {NoPassword, "pw9"}]

\* A PATCH /me that goes on after a wrong current password.
MeCheckNone(d, id, currentPassword) == Pass

\* PATCH /me, lines 303-314: the current password is required and compared
\* with the stored hash.  (Users are never deleted: the 404 cannot happen.)
MeCheck(d, id, currentPassword) ==
    IF currentPassword = NoPassword THEN Deny(400, "Mot de passe actuel requis")
    ELSE IF ~Compare(currentPassword, d.users[id].password)
    THEN Deny(401, "Mot de passe actuel invalide")
    ELSE Pass

\* PATCH /me, lines 301-334, for the user of the token: load the user, check
\* the password, build data; the email lookup and the update are later calls.
MeLoad(p, user, b) ==
    /\ pc[p] = "idle"
    /\   LET me     == db.users[user.id]
             chk    == MeCheck(db, user.id, b.currentPassword)
             email  == IF b.email # NoEmail /\ b.email # me.email THEN b.email ELSE NoEmail
             data   == [name |-> b.name, email |-> email, password |-> b.newPassword]
             r      == [op |-> "me_patch", user |-> user.id, items |-> <<>>,
                        data |-> data, me |-> me, body |-> b]
         IN  IF chk # Pass
             THEN /\ out' = Reply("me_patch", chk.status, chk.error, 0, NoCred)
                  /\ UNCHANGED <<pc, req, loc>>
             ELSE IF email # NoEmail
             THEN /\ pc'  = [pc EXCEPT ![p] = "me_email"]
                  /\ req' = [req EXCEPT ![p] = r]
                  /\ UNCHANGED <<loc, out>>
             ELSE IF data.name = NoName /\ data.password = NoPassword
             THEN /\ out' = Reply("me_patch", 200, "", user.id, NoCred)
                  /\ UNCHANGED <<pc, req, loc>>
             ELSE /\ pc'  = [pc EXCEPT ![p] = "me_update"]
                  /\ req' = [req EXCEPT ![p] = r]
                  /\ UNCHANGED <<loc, out>>
    /\ nreq' = nreq + 1
    /\ UNCHANGED <<db, nadmin>>

\* PATCH /me, lines 320-325: is the new email taken by somebody else?
MeEmail(p) ==
    /\ pc[p] = "me_email"
    /\ IF \E i \in UserByEmail(db, req[p].data.email) : i # req[p].user
       THEN /\ out' = Reply("me_patch", 409, "Email deja utilise", 0, NoCred)
            /\ Finish(p)
       ELSE /\ pc' = [pc EXCEPT ![p] = "me_update"]
            /\ UNCHANGED <<req, loc, out>>
    /\ UNCHANGED <<db, nreq, nadmin, aux>>

\* PATCH /me, lines 336-349: the update, and a new cookie when the email
\* changed; a rejection goes to the catch (500).
MeUpdate(p) ==
    /\ pc[p] = "me_update"
    /\ LET id == req[p].user
           r  == UserUpdate(db, id, req[p].data)
       IN  /\ db' = r.db
           /\ out' = IF ~r.ok THEN Reply("me_patch", 500, "Server error", 0, NoCred)
                     ELSE Reply("me_patch", 200, "", id,
                                IF r.db.users[id].email # req[p].me.email
                                THEN Token(id, r.db.users[id].email, r.db.users[id].admin)
                                ELSE NoCred)
    /\ Finish(p)
    /\ UNCHANGED <<nreq, nadmin, aux>>

\* ----------------------------------------------- requests with credentials
Creds == {NoCred, BadCred, Token(1, "alice", FALSE), Token(2, "admin", TRUE)}

\* A request rejected by a middleware: its response, and nothing else.
Rejected(route, m) ==
    /\ out' = Reply(route, m.status, m.error, 0, NoCred)
    /\ nreq' = nreq + 1
    /\ UNCHANGED <<db, pc, req, loc, nadmin>>

\* A request with cookie c for a route: the middlewares, then the handler's
\* first step H.
Guarded(route, c, H) ==
    /\ rx' = [route |-> route, cred |-> c]
    /\ calc' = calc
    /\ IF Middleware(route, c) # Pass THEN Rejected(route, Middleware(route, c)) ELSE H

\* PATCH /me with cookie c and body b.
MePatch(p, c) ==
    \E b \in MeBodies :
        /\ rx' = [route |-> "me_patch", cred |-> c, body |-> b]
        /\ calc' = calc
        /\ IF Middleware("me_patch", c) # Pass
           THEN Rejected("me_patch", Middleware("me_patch", c))
           ELSE MeLoad(p, ReqUser(c), b)

\* A handler with one database call and no try/catch around it.
OneCall(route, r) ==
    /\ db' = r.db
    /\ out' \in IF r.threw
                THEN {Reply(route, 0, r.error, 0, NoCred), Reply(route, 500, r.error, 0, NoCred)}
                ELSE {Reply(route, r.status, r.error, r.user, r.cookie)}
    /\ nadmin' = nadmin + 1
    /\ UNCHANGED <<pc, req, loc, nreq>>

RowIds == 1..2      \* the :id of a route: a row that exists, or not

FaqCreate(c) ==
    \E q \in {"", "q2"} :
        Guarded("faq_create", c, OneCall("faq_create", FaqCreateResult(db, q)))
FaqPatch(c) ==
    \E id \in RowIds, f \in FlagInputs :
        Guarded("faq_patch", c, OneCall("faq_patch", FaqPatchResult(db, id, f)))
FaqDelete(c) ==
    \E id \in RowIds :
        Guarded("faq_delete", c, OneCall("faq_delete", FaqDeleteResult(db, id)))

ReviewPatch(c) ==
    \E id \in RowIds, stars \in StarsInputs, f \in FlagInputs :
        /\ rx' = [route |-> "review_patch", cred |-> c, id |-> id, stars |-> stars,
                  published |-> f]
        /\ calc' = calc
        /\ IF Middleware("review_patch", c) # Pass
           THEN Rejected("review_patch", Middleware("review_patch", c))
           ELSE OneCall("review_patch", ReviewPatchResult(db, id, stars, f))
ReviewDelete(c) ==
    \E id \in RowIds :
        Guarded("review_delete", c, OneCall("review_delete", ReviewDeleteResult(db, id)))

\* The public routes of Review.js: no middleware.
ReviewPost ==
    /\ \E name \in {NoName, "Zed"}, stars \in StarsInputs :
         /\ OneCall("review_post", ReviewPostResult(db, name, stars))
         /\ rx' = [route |-> "review_post", cred |-> NoCred, name |-> name, stars |-> stars]
    /\ calc' = calc
ReviewGet ==
    /\ out' = [Reply("review_list", 200, "", 0, NoCred) EXCEPT !.lines = ReviewList(db)]
    /\ rx' = [route |-> "review_list", cred |-> NoCred]
    /\ nreq' = nreq + 1
    /\ UNCHANGED <<db, pc, req, loc, nadmin, calc>>

AdminUserPatch(c) ==
    \E id \in 1..3, email \in {NoEmail, "admin", "bob"}, f \in FlagInputs :
        Guarded("admin_user_patch", c,
                OneCall("admin_user_patch", AdminUserPatchResult(db, id, email, f)))
AdminReset(c) ==
    \E id \in 1..3, pw \in ShortPasswords \cup {"pw9"} :
        Guarded("admin_reset", c, OneCall("admin_reset", AdminResetResult(db, id, pw)))

SeedProduct(slug, price) ==
    [live |-> TRUE, slug |-> slug, price |-> price, stock |-> InitStock]

Init ==
    /\ db = [products  |-> <<SeedProduct("a", 1)>>,
             sales     |-> <<>>,
             saleItems |-> {},
             carts     |-> <<>>,
             cartItems |-> {},
             users     |-> SeedUsers,
             reviews   |-> SeedReviews,
             faqs      |-> SeedFaqs]
    /\ pc   = [p \in Procs |-> "idle"]
    /\ req  = [p \in Procs |-> NoReq]
    /\ loc  = [p \in Procs |-> NoLoc]
    /\ out  = Response("none", 0, "")
    /\ nreq = 0
    /\ nadmin = 0
    /\ rx = NoRx
    /\ calc = NoCalc

AdminRequest ==
    \/ AdminCreate
    \/ AdminPatch
    \/ AdminDelete

\* The steps of the cart handlers after getOrCreateActiveCart.
CartStep(p) ==
    \/ AddFind(p)
    \/ AddWrite(p)
    \/ MergeFind(p)
    \/ MergeWrite(p)
    \/ QtyWrite(p)
    \/ RemoveWrite(p)
    \/ ClearWrite(p)
    \/ CartRead(p)

\* Checkouts overlapping each other, admin edits of the catalog and the lazy
\* creation of carts (GET /cart).
Next ==
    \/ \E p \in Procs : nreq < MaxReqs /\ CheckoutLookup(p, Users) /\ UNCHANGED aux
    \/ \E p \in Procs : nreq < MaxReqs /\ CartRequest(p, Users, {"get"}) /\ UNCHANGED aux
    \/ \E p \in Procs : CheckoutTx(p) /\ UNCHANGED aux
    \/ \E p \in Procs : GocCreate(p) /\ UNCHANGED aux
    \/ nadmin < MaxAdmin /\ AdminRequest /\ UNCHANGED aux

Spec == Init /\ [][Next]_vars

\* Cart requests and checkouts overlapping each other; the catalog is fixed.
NextCart ==
    \/ \E p \in Procs : nreq < MaxReqs /\ CartRequest(p, Shopper, CartOps) /\ UNCHANGED aux
    \/ \E p \in Procs : nreq < MaxReqs /\ CartRequest(p, Others, {"get"}) /\ UNCHANGED aux
    \/ \E p \in Procs : nreq < MaxReqs /\ CheckoutLookup(p, Shopper) /\ UNCHANGED aux
    \/ \E p \in Procs : CheckoutTx(p) /\ UNCHANGED aux
    \/ \E p \in Procs : GocCreate(p) /\ UNCHANGED aux
    \/ \E p \in Procs : CartStep(p) /\ UNCHANGED aux

SpecCart == Init /\ [][NextCart]_vars

\* Every request, one at a time: a request is admitted only when no handler
\* is in flight.
Quiet == \A p \in Procs : pc[p] = "idle"

NextSeq ==
    \/ Quiet /\ nreq < MaxSeqReqs /\ CartRequest(1, Shopper, CartOps) /\ UNCHANGED aux
    \/ Quiet /\ nreq < MaxSeqReqs /\ CartRequest(1, Others, {"get", "add"}) /\ UNCHANGED aux
    \/ Quiet /\ nreq < MaxSeqReqs /\ CheckoutLookup(1, Shopper) /\ UNCHANGED aux
    \/ Quiet /\ nadmin < MaxAdmin /\ AdminRequest /\ UNCHANGED aux
    \/ CheckoutTx(1) /\ UNCHANGED aux
    \/ GocCreate(1) /\ UNCHANGED aux
    \/ CartStep(1) /\ UNCHANGED aux

SpecSeq == Init /\ [][NextSeq]_vars

\* Every protected route, with every kind of auth cookie, one request at a
\* time.
MaxAuthReqs == 2
AuthBudget == Quiet /\ nreq + nadmin < MaxAuthReqs

NextAuth ==
    \/ \E c \in Creds, op \in CartOps :
          AuthBudget /\ Guarded(op, c, CartRequest(1, {ReqUser(c).id}, {op}))
    \/ \E c \in Creds : AuthBudget /\ Guarded("checkout", c, CheckoutLookup(1, {ReqUser(c).id}))
    \/ \E c \in Creds : AuthBudget /\ MePatch(1, c)
    \/ \E c \in Creds : AuthBudget /\ Guarded("admin_create", c, AdminCreate)
    \/ \E c \in Creds : AuthBudget /\ Guarded("admin_patch", c, AdminPatch)
    \/ \E c \in Creds : AuthBudget /\ Guarded("admin_delete", c, AdminDelete)
    \/ \E c \in Creds : AuthBudget /\ FaqCreate(c)
    \/ \E c \in Creds : AuthBudget /\ FaqPatch(c)
    \/ \E c \in Creds : AuthBudget /\ FaqDelete(c)
    \/ \E c \in Creds : AuthBudget /\ ReviewPatch(c)
    \/ \E c \in Creds : AuthBudget /\ ReviewDelete(c)
    \/ \E c \in Creds : AuthBudget /\ AdminUserPatch(c)
    \/ \E c \in Creds : AuthBudget /\ AdminReset(c)
    \/ CheckoutTx(1) /\ UNCHANGED aux
    \/ GocCreate(1) /\ UNCHANGED aux
    \/ CartStep(1) /\ UNCHANGED aux
    \/ MeEmail(1)
    \/ MeUpdate(1)

SpecAuth == Init /\ [][NextAuth]_vars

\* Registrations, logins and profile updates overlapping each other.
NextUser ==
    \/ \E p \in Procs : nreq < MaxReqs /\ RegisterFind(p)
    \/ \E p \in Procs : RegisterCreate(p)
    \/ nreq < MaxReqs /\ Login
    \/ \E p \in Procs : \E c \in Creds \ {BadCred} : nreq < MaxReqs /\ MePatch(p, c)
    \/ \E p \in Procs : MeEmail(p)
    \/ \E p \in Procs : MeUpdate(p)

SpecUser == Init /\ [][NextUser]_vars

\* The reviews: public submissions and reads, admin moderation, one request
\* at a time.
MaxReviewReqs == 3

NextReview ==
    \/ nreq + nadmin < MaxReviewReqs /\ ReviewPost
    \/ nreq + nadmin < MaxReviewReqs /\ ReviewGet
    \/ \E c \in Creds : nreq + nadmin < MaxReviewReqs /\ ReviewPatch(c)
    \/ \E c \in Creds : nreq + nadmin < MaxReviewReqs /\ ReviewDelete(c)

SpecReview == Init /\ [][NextReview]_vars

\* ------------------------------------------- the quantity normalisation
\* Math.max(1, Number(qty) || 1) on its own, for every kind of qty a body can
\* carry, in the four handlers that compute it.
MaxQty == 3

QtyValues ==
    {JUndef, JText} \cup {JNum(n) : n \in -MaxQty..MaxQty}
                    \cup {JFrac(n) : n \in -MaxQty..(MaxQty - 1)}

QtyRoutes == {"checkout", "add", "qty", "merge"}

NoResult == [t |-> "none", n |-> 0]

QtyCases ==
    [fn : {"quantity"}, route : QtyRoutes, input : QtyValues, done : {FALSE},
     result : {NoResult}]

\* const { productId, qty = 1 } = req.body: the default of POST /cart/add.
DefaultQty(v) == IF v = JUndef THEN JNum(1) ELSE v

Computes(route, q) ==
    /\ calc.fn = "quantity" /\ calc.route = route /\ ~calc.done
    /\ calc' = [calc EXCEPT !.done = TRUE, !.result = q]
    /\ UNCHANGED <<db, pc, req, loc, out, nreq, nadmin, rx>>

\* index.js lines 98, 102 and 114.
CheckoutQty == Computes("checkout", Normalize(calc.input))
\* Cart.js lines 73-76.
AddQty      == Computes("add", Normalize(DefaultQty(calc.input)))
\* Cart.js line 108.
SetQty      == Computes("qty", Normalize(calc.input))
\* Cart.js line 164.
MergeQty    == Computes("merge", Normalize(calc.input))

InitQty ==
    /\ db = [products  |-> <<SeedProduct("a", 1)>>,
             sales     |-> <<>>,
             saleItems |-> {},
             carts     |-> <<>>,
             cartItems |-> {},
             users     |-> SeedUsers,
             reviews   |-> SeedReviews,
             faqs      |-> SeedFaqs]
    /\ pc   = [p \in Procs |-> "idle"]
    /\ req  = [p \in Procs |-> NoReq]
    /\ loc  = [p \in Procs |-> NoLoc]
    /\ out  = Response("none", 0, "")
    /\ nreq = 0
    /\ nadmin = 0
    /\ rx = NoRx
    /\ calc \in QtyCases

NextQty ==
    \/ CheckoutQty
    \/ AddQty
    \/ SetQty
    \/ MergeQty

SpecQty == InitQty /\ [][NextQty]_vars

\* The cart requests of one user, one at a time, with the handlers running
\* to their end: an awaited database call settles and its continuation runs.
MaxLiveReqs == 3

NextCartLive ==
    \/ Quiet /\ nreq < MaxLiveReqs /\ CartRequest(1, Shopper, CartOps) /\ UNCHANGED aux
    \/ GocCreate(1) /\ UNCHANGED aux
    \/ CartStep(1) /\ UNCHANGED aux

SpecCartLive ==
    /\ Init
    /\ [][NextCartLive]_vars
    /\ WF_vars(GocCreate(1) /\ UNCHANGED aux)
    /\ WF_vars(CartStep(1) /\ UNCHANGED aux)

\* ------------------------------------------------------- GET /api/stats
\* The month buckets of GET /api/stats, index.js lines 160-171, for every
\* date the server's clock can show in the years explored.
FirstYear == 2024       \* a leap year
NumYears  == 2

IsLeap(y) == (y % 4 = 0 /\ y % 100 # 0) \/ y % 400 = 0

\* Days of month m (0 = January) of year y.
DaysIn(y, m) ==
    IF m = 1 THEN (IF IsLeap(y) THEN 29 ELSE 28)
    ELSE IF m \in {3, 5, 8, 10} THEN 30 ELSE 31

Dates ==
    {[y |-> y, m |-> m, d |-> d] :
        y \in FirstYear..(FirstYear + NumYears - 1), m \in 0..11, d \in 1..31}

ClockDates == {t \in Dates : t.d <= DaysIn(t.y, t.m)}

\* Date.prototype.setMonth(m) with m possibly negative: the month is taken
\* modulo 12 with the year adjusted, the day of the month is kept, and a day
\* the month does not have runs over into the next month.
SetMonth(t, m) ==
    LET n  == t.y * 12 + m
        y2 == n \div 12
        m2 == n % 12
    IN  IF t.d <= DaysIn(y2, m2) THEN [y |-> y2, m |-> m2, d |-> t.d]
        ELSE [y |-> (n + 1) \div 12, m |-> (n + 1) % 12, d |-> t.d - DaysIn(y2, m2)]

\* `${d.getFullYear()}-${d.getMonth()}`
BucketKey(t) == [y |-> t.y, m |-> t.m]

RECURSIVE FillBuckets(_, _, _)
\* The loop of lines 162-166, i counting down to 0: buckets[key] = ... adds
\* the key at the end of the object's keys, or overwrites the bucket the key
\* already has, in its place.
FillBuckets(now, i, buckets) ==
    LET key  == BucketKey(SetMonth(now, now.m - i))
        next == IF \E k \in DOMAIN buckets : buckets[k] = key THEN buckets
                ELSE Append(buckets, key)
    IN  IF i = 0 THEN next ELSE FillBuckets(now, i - 1, next)

\* res.json(Object.values(buckets)): the buckets in insertion order.
StatsBuckets(now) == FillBuckets(now, 5, <<>>)

StatsCases == [fn : {"stats"}, now : ClockDates, done : {FALSE}, result : {<<>>}]

\* GET /api/stats.
Stats ==
    /\ calc.fn = "stats" /\ ~calc.done
    /\ calc' = [calc EXCEPT !.done = TRUE, !.result = StatsBuckets(calc.now)]
    /\ UNCHANGED <<db, pc, req, loc, out, nreq, nadmin, rx>>

InitStats ==
    /\ db = [products  |-> <<SeedProduct("a", 1)>>,
             sales     |-> <<>>,
             saleItems |-> {},
             carts     |-> <<>>,
             cartItems |-> {},
             users     |-> SeedUsers,
             reviews   |-> SeedReviews,
             faqs      |-> SeedFaqs]
    /\ pc   = [p \in Procs |-> "idle"]
    /\ req  = [p \in Procs |-> NoReq]
    /\ loc  = [p \in Procs |-> NoLoc]
    /\ out  = Response("none", 0, "")
    /\ nreq = 0
    /\ nadmin = 0
    /\ rx = NoRx
    /\ calc \in StatsCases

NextStats == Stats

SpecStats == InitStats /\ [][NextStats]_vars

\* --------------------------------------------- GET /api/stats: the sums
\* The sales GET /api/stats fetches and adds up, lines 149-170, for one or
\* two sales created on the first or on a late day of some month.
MaxSales == 2
SaleDays == {1, 28}

SaleDates == {t \in ClockDates : t.d \in SaleDays}

\* The k-th sale has total k.
SaleLists ==
    UNION {[1..n -> SaleDates] : n \in 1..MaxSales}

\* t1 is the same day as t2 or a later one.
NotBefore(t1, t2) ==
    \/ t1.y > t2.y
    \/ t1.y = t2.y /\ t1.m > t2.m
    \/ t1.y = t2.y /\ t1.m = t2.m /\ t1.d >= t2.d

\* start: now moved back five months by setMonth, at 00:00 (lines 150-152).
StatsStart(now) == SetMonth(now, now.m - 5)

\* prisma.sale.findMany({ where: { createdAt: { gte: start } } }): the
\* indices of the sales it returns.
SalesFetched(now, sales) ==
    {k \in DOMAIN sales : NotBefore(sales[k], StatsStart(now))}

\* Lines 167-170: each fetched sale is added to the bucket of its month, if
\* there is one.  The result pairs each bucket with its sum.
BucketSums(now, sales) ==
    LET keys == StatsBuckets(now)
    IN  [b \in DOMAIN keys |->
            [key   |-> keys[b],
             sales |-> SumOver({k \in SalesFetched(now, sales) :
                                  BucketKey(sales[k]) = keys[b]},
                               [k \in DOMAIN sales |-> k])]]

LastYear == FirstYear + NumYears - 1

SumCases ==
    [fn : {"stats_sum"}, now : {t \in ClockDates : t.y = LastYear},
     sales : SaleLists, done : {FALSE}, result : {<<>>}]

\* GET /api/stats with the sales of the database.
StatsSum ==
    /\ calc.fn = "stats_sum" /\ ~calc.done
    /\ calc' = [calc EXCEPT !.done = TRUE, !.result = BucketSums(calc.now, calc.sales)]
    /\ UNCHANGED <<db, pc, req, loc, out, nreq, nadmin, rx>>

InitSum ==
    /\ db = [products  |-> <<SeedProduct("a", 1)>>,
             sales     |-> <<>>,
             saleItems |-> {},
             carts     |-> <<>>,
             cartItems |-> {},
             users     |-> SeedUsers,
             reviews   |-> SeedReviews,
             faqs      |-> SeedFaqs]
    /\ pc   = [p \in Procs |-> "idle"]
    /\ req  = [p \in Procs |-> NoReq]
    /\ loc  = [p \in Procs |-> NoLoc]
    /\ out  = Response("none", 0, "")
    /\ nreq = 0
    /\ nadmin = 0
    /\ rx = NoRx
    /\ calc \in SumCases

NextSum == StatsSum

SpecSum == InitSum /\ [][NextSum]_vars

\* ------------------------------------------------------------- seed.js
\* The seed script, part_000 lines 50-144, run on a database that holds any
\* part of the demo data already, and run again.  Slot 1 is the script; out
\* carries its exit code in status (0: "Seed done"); calc keeps the database
\* as the last successful run left it.
MaxSeedRuns == 2

SeedRow == SeedProduct("a", 1)

\* A review needs its user and its product (foreign keys).
SeedDatabases ==
    {d \in {[products  |-> ps, sales |-> <<>>, saleItems |-> {}, carts |-> <<>>,
             cartItems |-> {}, users |-> us, reviews |-> rs, faqs |-> fs] :
               ps \in {<<>>} \cup {<<[SeedRow EXCEPT !.stock = s]>> : s \in 0..InitStock},
               us \in {<<>>, SubSeq(SeedUsers, 1, 1), SeedUsers},
               rs \in {<<>>, SeedReviews},
               fs \in {<<>>, SeedFaqs}} :
        d.reviews # <<>> => (d.users # <<>> /\ d.products # <<>>)}

\* prisma.user.upsert({ where: { email }, update: {}, create }), lines 54-92.
UserUpsert(d, u) ==
    IF UserByEmail(d, u.email) # {} THEN d ELSE [d EXCEPT !.users = Append(@, u)]

\* prisma.product.upsert({ where: { slug }, update: p, create: p }), lines 95-101.
ProductUpsert(d, row) ==
    LET found == ProductFindManyBySlug(d, {row.slug})
    IN  IF found = {} THEN [d EXCEPT !.products = Append(@, row)]
        ELSE [d EXCEPT !.products[CHOOSE i \in found : TRUE] = row]

\* prisma.faq.createMany({ data, skipDuplicates: true }), lines 115-122: the
\* Faq table has no unique index but its primary key, so no row is a
\* duplicate and every row is inserted.
FaqCreateMany(d, rows) == [d EXCEPT !.faqs = @ \o rows]

\* prisma.review.createMany({ data }), lines 132-140: refused as a whole by
\* the unique index (userId, productId).
ReviewCreateMany(d, rows) ==
    IF \E i \in DOMAIN d.reviews, k \in DOMAIN rows :
           /\ d.reviews[i].live
           /\ d.reviews[i].userId = rows[k].userId /\ d.reviews[i].productId = rows[k].productId
    THEN Fail(d, "P2002")
    ELSE Ok([d EXCEPT !.reviews = @ \o rows])

\* node prisma/seed.js
SeedStart ==
    /\ pc[1] = "idle" /\ nreq < MaxSeedRuns
    /\ pc'  = [pc EXCEPT ![1] = "seed_user"]
    /\ req' = [req EXCEPT ![1] = [op |-> "seed", user |-> 0, items |-> <<>>]]
    /\ loc' = [loc EXCEPT ![1].i = 1]
    /\ nreq' = nreq + 1
    /\ UNCHANGED <<db, out, nadmin, rx, calc>>

\* 1) USERS, one upsert at a time.
SeedUser ==
    /\ pc[1] = "seed_user"
    /\ db'  = UserUpsert(db, SeedUsers[loc[1].i])
    /\ pc'  = [pc EXCEPT ![1] = IF loc[1].i = Len(SeedUsers) THEN "seed_product" ELSE @]
    /\ loc' = [loc EXCEPT ![1].i = @ + 1]
    /\ UNCHANGED <<req, out, nreq, nadmin, rx, calc>>

\* 2) PRODUCTS.
SeedProducts ==
    /\ pc[1] = "seed_product"
    /\ db' = ProductUpsert(db, SeedRow)
    /\ pc' = [pc EXCEPT ![1] = "seed_faq"]
    /\ UNCHANGED <<req, loc, out, nreq, nadmin, rx, calc>>

\* 4) FAQ.
SeedFaq ==
    /\ pc[1] = "seed_faq"
    /\ db' = FaqCreateMany(db, SeedFaqs)
    /\ pc' = [pc EXCEPT ![1] = "seed_review"]
    /\ UNCHANGED <<req, loc, out, nreq, nadmin, rx, calc>>

\* 5) REVIEWS, with the ids of the user and of the product just upserted;
\* a rejection goes to main().catch: process.exit(1).
SeedReview ==
    /\ pc[1] = "seed_review"
    /\ LET alice == CHOOSE i \in UserByEmail(db, SeedUsers[1].email) : TRUE
           prod  == CHOOSE i \in ProductFindManyBySlug(db, {SeedRow.slug}) : TRUE
           r     == ReviewCreateMany(db, <<[SeedReviews[1] EXCEPT !.userId = alice,
                                                                  !.productId = prod]>>)
       IN  /\ db'   = r.db
           /\ out'  = Response("seed", IF r.ok THEN 0 ELSE 1, IF r.ok THEN "" ELSE r.code)
           /\ calc' = IF r.ok THEN [fn |-> "seeded", db |-> r.db] ELSE calc
    /\ Finish(1)
    /\ UNCHANGED <<nreq, nadmin, rx>>

InitSeed ==
    /\ db \in SeedDatabases
    /\ pc   = [p \in Procs |-> "idle"]
    /\ req  = [p \in Procs |-> NoReq]
    /\ loc  = [p \in Procs |-> NoLoc]
    /\ out  = Response("none", 0, "")
    /\ nreq = 0
    /\ nadmin = 0
    /\ rx = NoRx
    /\ calc = NoCalc

NextSeed ==
    \/ SeedStart
    \/ SeedUser
    \/ SeedProducts
    \/ SeedFaq
    \/ SeedReview

SpecSeed == InitSeed /\ [][NextSeed]_vars

\* Checkouts of every user overlapping each other, and nothing else: no
\* admin request touches the catalog.
NextCheckout ==
    \/ \E p \in Procs : nreq < MaxReqs /\ CheckoutLookup(p, Users) /\ UNCHANGED aux
    \/ \E p \in Procs : CheckoutTx(p) /\ UNCHANGED aux

SpecCheckout == Init /\ [][NextCheckout]_vars

\* The adds (and reads) of one user's cart overlapping each other.
NextAdds ==
    \/ \E p \in Procs : nreq < MaxReqs /\ CartRequest(p, Shopper, {"get", "add"}) /\ UNCHANGED aux
    \/ \E p \in Procs : GocCreate(p) /\ UNCHANGED aux
    \/ \E p \in Procs : AddFind(p) /\ UNCHANGED aux
    \/ \E p \in Procs : AddWrite(p) /\ UNCHANGED aux
    \/ \E p \in Procs : CartRead(p) /\ UNCHANGED aux

SpecAdds == Init /\ [][NextAdds]_vars

\* One user who looks at the cart and checks out, again and again, one
\* request at a time.
MaxRepeatReqs == 4

NextRepeat ==
    \/ Quiet /\ nreq < MaxRepeatReqs /\ CartRequest(1, Shopper, {"get"}) /\ UNCHANGED aux
    \/ Quiet /\ nreq < MaxRepeatReqs /\ CheckoutLookup(1, Shopper) /\ UNCHANGED aux
    \/ GocCreate(1) /\ UNCHANGED aux
    \/ CheckoutTx(1) /\ UNCHANGED aux

SpecRepeat == Init /\ [][NextRepeat]_vars

\* -------------------------------------------- client: the cart context
\* CartProvider's load effect (cart.jsx lines 35-67) against the server's
\* cart routes.  calc is the browser: isAuth, the guest list (guestItems,
\* guest0 as it was at first), and one record per run of the effect: at
\* (the fetch it awaits), cancelled, res (the status of the response, -1
\* while pending, 0 when the server never answers).  The run in slot p of fx
\* uses request slot p.  The user state only changes by login and logout
\* (auth.jsx: user is null at mount).
MaxLogins == 2

GuestLine(i) == [slug |-> NoSlug, productId |-> JNum(i), qty |-> JNum(2)]

\* localStorage gg_cart: lines of distinct products; product 2 is not (or no
\* longer) in the catalog.
GuestLists ==
    {<<>>, <<GuestLine(1)>>, <<GuestLine(2)>>, <<GuestLine(1), GuestLine(2)>>,
     <<GuestLine(2), GuestLine(1)>>}

NoRun == [at |-> "none", cancelled |-> FALSE, res |-> -1]

\* What fetch resolves with once slot p's handler has ended in this step.
Delivered(p) == IF pc'[p] = "idle" THEN out'.status ELSE -1

\* Lines 59-60: fetch('/api/cart').
SendGet(p) ==
    /\ CartRequest(p, Shopper, {"get"})
    /\ calc' = [calc EXCEPT !.fx[p] = [at |-> "get", cancelled |-> FALSE, res |-> Delivered(p)]]

\* setUser(user) after a login: isAuth becomes true and the effect runs.
\* Lines 44-55: with guest items, fetch('/api/cart/merge') with the list.
ClientLogin ==
    \E p \in Procs :
        /\ calc.fn = "client" /\ ~calc.isAuth /\ calc.logins < MaxLogins
        /\ calc.fx[p].at = "none" /\ pc[p] = "idle"
        /\ IF calc.guest # <<>>
           THEN /\ CartRequest(p, Shopper, {"merge"})
                /\ req'[p].items = calc.guest
                /\ calc' = [calc EXCEPT !.isAuth = TRUE, !.logins = @ + 1,
                                        !.fx[p] = [NoRun EXCEPT !.at = "merge"]]
           ELSE /\ CartRequest(p, Shopper, {"get"})
                /\ calc' = [calc EXCEPT !.isAuth = TRUE, !.logins = @ + 1,
                                        !.fx[p] = [NoRun EXCEPT !.at = "get",
                                                                !.res = Delivered(p)]]
        /\ rx' = rx

\* setUser(null) after a logout: the cleanup of the effect sets cancelled,
\* and the effect runs with isAuth false (lines 38-41).
ClientLogout ==
    /\ calc.fn = "client" /\ calc.isAuth
    /\ calc' = [calc EXCEPT !.isAuth = FALSE, !.serverCart = "null",
                            !.fx = [p \in Procs |-> IF @[p].at = "none" THEN @[p]
                                                    ELSE [@[p] EXCEPT !.cancelled = TRUE]]]
    /\ UNCHANGED <<db, pc, req, loc, out, nreq, nadmin, rx>>

\* The server's handler of slot p goes on; the response it sends, or its
\* silence, reaches the fetch that waits for it.
ServerStep(p) ==
    /\ calc.fn = "client"
    /\ GocCreate(p) \/ MergeFind(p) \/ MergeWrite(p) \/ CartRead(p)
    /\ calc' = IF pc'[p] = "idle" THEN [calc EXCEPT !.fx[p].res = out'.status] ELSE calc
    /\ rx' = rx

\* Lines 55-60: the merge fetch resolves (with any HTTP status), then
\* setGuestItems([]) and fetch('/api/cart').
MergeResolved(p) ==
    /\ calc.fn = "client" /\ calc.fx[p].at = "merge" /\ calc.fx[p].res > 0
    /\ CartRequest(p, Shopper, {"get"})
    /\ calc' = [calc EXCEPT !.guest = <<>>,
                            !.fx[p].at = "get", !.fx[p].res = Delivered(p)]
    /\ rx' = rx

\* Lines 61-62: data = res.ok ? json : null; setServerCart unless cancelled.
GetResolved(p) ==
    /\ calc.fn = "client" /\ calc.fx[p].at = "get" /\ calc.fx[p].res > 0
    /\ calc' = [calc EXCEPT !.fx[p] = NoRun,
                            !.serverCart = IF calc.fx[p].cancelled THEN @
                                           ELSE IF calc.fx[p].res = 200 THEN "loaded"
                                           ELSE "null"]
    /\ UNCHANGED <<db, pc, req, loc, out, nreq, nadmin, rx>>

InitSync ==
    /\ db = [products  |-> <<SeedProduct("a", 1)>>,
             sales     |-> <<>>,
             saleItems |-> {},
             carts     |-> <<>>,
             cartItems |-> {},
             users     |-> SeedUsers,
             reviews   |-> SeedReviews,
             faqs      |-> SeedFaqs]
    /\ pc   = [p \in Procs |-> "idle"]
    /\ req  = [p \in Procs |-> NoReq]
    /\ loc  = [p \in Procs |-> NoLoc]
    /\ out  = Response("none", 0, "")
    /\ nreq = 0
    /\ nadmin = 0
    /\ rx = NoRx
    /\ \E g \in GuestLists :
          calc = [fn |-> "client", isAuth |-> FALSE, logins |-> 0, guest |-> g,
                  guest0 |-> g, serverCart |-> "null", fx |-> [p \in Procs |-> NoRun]]

NextSync ==
    \/ ClientLogin
    \/ ClientLogout
    \/ \E p \in Procs : ServerStep(p)
    \/ \E p \in Procs : MergeResolved(p)
    \/ \E p \in Procs : GetResolved(p)

SpecSync == InitSync /\ [][NextSync]_vars

\* ------------------------------------------ credentials that outlive a flag
\* Logins, the browser keeping the auth cookie of a login response
\* (res.cookie('auth', ...), maxAge 7 days), and admin-only requests sent
\* with a cookie the browser holds.  calc.held is the set of cookies issued
\* so far and not expired.
MaxRevokeReqs == 5

RevokeBudget == nreq + nadmin < MaxRevokeReqs

\* The browser stores the cookie of the login response.
StoreCookie ==
    /\ calc.fn = "jar"
    /\ out.op = "login" /\ out.cookie.kind = "token" /\ out.cookie \notin calc.held
    /\ calc' = [calc EXCEPT !.held = @ \cup {out.cookie}]
    /\ UNCHANGED <<db, pc, req, loc, out, nreq, nadmin, rx>>

InitRevoke ==
    /\ db = [products  |-> <<SeedProduct("a", 1)>>,
             sales     |-> <<>>,
             saleItems |-> {},
             carts     |-> <<>>,
             cartItems |-> {},
             users     |-> SeedUsers,
             reviews   |-> SeedReviews,
             faqs      |-> SeedFaqs]
    /\ pc   = [p \in Procs |-> "idle"]
    /\ req  = [p \in Procs |-> NoReq]
    /\ loc  = [p \in Procs |-> NoLoc]
    /\ out  = Response("none", 0, "")
    /\ nreq = 0
    /\ nadmin = 0
    /\ rx = NoRx
    /\ calc = [fn |-> "jar", held |-> {}]

NextRevoke ==
    \/ RevokeBudget /\ LoginAs({"alice", "admin"}, {"pw1", "pw2"})
    \/ StoreCookie
    \/ \E c \in calc.held : RevokeBudget /\ AdminUserPatch(c)
    \/ \E c \in calc.held : RevokeBudget /\ AdminReset(c)
    \/ \E c \in calc.held : RevokeBudget /\ FaqDelete(c)

SpecRevoke == InitRevoke /\ [][NextRevoke]_vars

\* --------------------------------------------- client: the cart page
\* The Cart page (Cart.jsx lines 55-79) calls setQty(i.slug, value) and
\* remove(i.slug) for a line i of the cart shown; CartProvider (cart.jsx
\* lines 93-127) turns the call into a change of the guest list or into a
\* request.  calc.guest is the guest list that held the same lines at first
\* and gets every call in guest mode; the server cart gets the requests.
MaxPageOps == 2

JNaN  == [t |-> "NaN", n |-> 0]
JNull == [t |-> "null", n |-> 0]      \* Number(null) is 0

\* Number(idOrSlug) for a slug: the number a string of digits spells, NaN for
\* any other string.
SlugNumber(s) == IF s = "1" THEN JNum(1) ELSE JNaN

\* JSON.stringify of a number: NaN becomes null.
Stringify(v) == IF v = JNaN THEN JNull ELSE v

\* `${productId}` in the URL: NaN becomes the path segment "NaN", which
\* Number() on the server makes NaN again.
PathSegment(v) == IF v = JNaN THEN JText ELSE v

\* The lines the page shows for the user's cart: id, slug, qty (the items
\* memo of cart.jsx).
PageLines(d) ==
    {[id |-> r.productId, slug |-> d.products[r.productId].slug, qty |-> r.qty] :
        r \in UNION {CartLines(d, c) : c \in ActiveCarts(d, 1)}}

\* Guest mode, lines 95-100 and 116.
GuestSetQty(list, idOrSlug, q) ==
    {IF x.slug = idOrSlug THEN [x EXCEPT !.qty = q] ELSE x : x \in list}
GuestRemove(list, idOrSlug) == {x \in list : x.slug # idOrSlug}

\* The user edits the quantity of a line: setQty(i.slug, e.target.value).
PageSetQty(p) ==
    \E i \in PageLines(db), v \in {JText, JNum(1), JNum(3)} :
        /\ calc.fn = "page" /\ calc.ops < MaxPageOps
        /\ CartArrives(p, 1, "qty",
                       <<[slug |-> NoSlug, productId |-> Stringify(SlugNumber(i.slug)),
                          qty |-> Normalize(v)]>>)
        /\ calc' = [calc EXCEPT !.ops = @ + 1, !.line = i.id,
                                !.guest = GuestSetQty(@, i.slug, NormQty(v))]
        /\ rx' = rx

\* The user clicks Remove on a line: remove(i.slug).
PageRemove(p) ==
    \E i \in PageLines(db) :
        /\ calc.fn = "page" /\ calc.ops < MaxPageOps
        /\ CartArrives(p, 1, "remove",
                       <<[slug |-> NoSlug, productId |-> PathSegment(SlugNumber(i.slug)),
                          qty |-> JUndef]>>)
        /\ calc' = [calc EXCEPT !.ops = @ + 1, !.line = i.id,
                                !.guest = GuestRemove(@, i.slug)]
        /\ rx' = rx

PageSlugs == {"b", "1"}

InitPage ==
    /\ \E s \in PageSlugs, held \in SUBSET {1, 2} :
          /\ db = [products  |-> <<SeedProduct("a", 1), SeedProduct(s, 1)>>,
                   sales     |-> <<>>,
                   saleItems |-> {},
                   carts     |-> <<[userId |-> 1, status |-> "ACTIVE"]>>,
                   cartItems |-> {[cartId |-> 1, productId |-> i, qty |-> 2] : i \in held},
                   users     |-> SeedUsers,
                   reviews   |-> SeedReviews,
                   faqs      |-> SeedFaqs]
          /\ calc = [fn |-> "page", ops |-> 0, line |-> 0, guest |-> PageLines(db)]
    /\ pc   = [p \in Procs |-> "idle"]
    /\ req  = [p \in Procs |-> NoReq]
    /\ loc  = [p \in Procs |-> NoLoc]
    /\ out  = Response("none", 0, "")
    /\ nreq = 0
    /\ nadmin = 0
    /\ rx = NoRx

\* One call at a time: the page sends the next request when the last one
\* has ended.
NextPage ==
    \/ Quiet /\ PageSetQty(1)
    \/ Quiet /\ PageRemove(1)
    \/ QtyWrite(1) /\ UNCHANGED aux
    \/ RemoveWrite(1) /\ UNCHANGED aux
    \/ CartRead(1) /\ UNCHANGED aux

SpecPage == InitPage /\ [][NextPage]_vars

\* ================================================================== claims
\* A step of request slot p that ends its checkout transaction.
TxStep(p) == pc[p] = "ck_tx" /\ pc'[p] = "idle"

\* The quantity a checkout in flight asks of product pid.
Requested(p, pid) ==
    LET ks == {k \in DOMAIN req[p].items : loc[p].snap[req[p].items[k].slug].id = pid}
    IN  SumOver(ks, [k \in ks |-> NormQty(req[p].items[k].qty)])

SaleItemsOf(d, s) == {r \in d.saleItems : r.saleId = s}

\* Every write of the checkout of slot p is in the database after the step.
AllWrites(p) ==
    LET s == Len(db.sales) + 1
    IN  /\ db'.sales = Append(db.sales, [userId |-> req[p].user, total |-> loc[p].total])
        /\ db.saleItems \subseteq db'.saleItems
        /\ db'.saleItems \ db.saleItems =
             {[saleId |-> s,
               productId |-> loc[p].snap[req[p].items[k].slug].id,
               qty |-> NormQty(req[p].items[k].qty),
               price |-> loc[p].snap[req[p].items[k].slug].price] : k \in DOMAIN req[p].items}
        /\ Cardinality(db'.saleItems \ db.saleItems) = Len(req[p].items)
        /\ DOMAIN db'.products = DOMAIN db.products
        /\ \A i \in DOMAIN db.products :
             db'.products[i] = [db.products[i] EXCEPT !.stock = @ - Requested(p, i)]
        /\ DOMAIN db'.carts = DOMAIN db.carts
        /\ \A c \in DOMAIN db.carts :
             db'.carts[c] = IF c \in ActiveCarts(db, req[p].user)
                            THEN [db.carts[c] EXCEPT !.status = "CHECKED_OUT"]
                            ELSE db.carts[c]
        /\ db'.cartItems = db.cartItems

\* C1: a checkout transaction persists all of its writes (one sale bound to
\* the caller, one sale-item per request item, every stock decrement, the
\* caller's ACTIVE cart flipped to CHECKED_OUT) and answers 200, or persists
\* none of them and answers 500.
C1_CheckoutAtomic ==
    [][\A p \in Procs :
         TxStep(p) => \/ out'.status = 200 /\ AllWrites(p)
                      \/ out'.status = 500 /\ db' = db]_vars

\* C1: a checkout whose transaction failed after its first write (the product
\* was deleted while the request was in flight) was answered 500.
C1_Witness ==
    /\ out.op = "checkout" /\ out.status = 500
    /\ db.sales = <<>> /\ db.saleItems = {}

\* What stops the transaction of slot p whatever the stock: a product row
\* that is gone, or the cart index refusing the status flip.
TxUnhindered(p) ==
    /\ \A k \in DOMAIN req[p].items : loc[p].snap[req[p].items[k].slug].id \in LiveIds(db)
    /\ CartCloseActive(db, req[p].user).ok

\* C2: the stock is checked against the value read at lookup only; the
\* transaction of a checkout that passed the check commits its decrement
\* whatever the stock has become, so two checkouts that both passed the check
\* both commit and leave the stock negative.
C2_CommitIgnoresStock ==
    [][\A p \in Procs :
         (TxStep(p) /\ TxUnhindered(p)) =>
            /\ out'.status = 200
            /\ \A i \in DOMAIN db.products :
                 db'.products[i].stock = db.products[i].stock - Requested(p, i)]_vars

\* C2: two checkouts committed, no admin request was made, and the stock of
\* a product is negative.
C2_Witness ==
    /\ nadmin = 0
    /\ Len(db.sales) = 2
    /\ \E i \in LiveIds(db) : db.products[i].stock < 0

\* C3: with requests running one at a time, every product's stock is >= 0.
C3_StockNonNegative ==
    \A i \in LiveIds(db) : db.products[i].stock >= 0

\* A step that answers a checkout at validation: the request is counted and
\* no slot is taken.
RejectStep == nreq' = nreq + 1 /\ pc' = pc /\ out'.op = "checkout"

\* The checkout in slot p passed validation on what it read at lookup.
PassedValidation(p) ==
    \A k \in DOMAIN req[p].items :
        /\ req[p].items[k].slug \in DOMAIN loc[p].snap
        /\ loc[p].snap[req[p].items[k].slug].stock >= NormQty(req[p].items[k].qty)

\* C4: a checkout rejected at validation is answered 400 and writes nothing,
\* and a request with an unknown slug or with an item whose quantity exceeds
\* the stock read never reaches the transaction.
C4_RejectedWritesNothing ==
    /\ [](\A p \in Procs : pc[p] = "ck_tx" => PassedValidation(p))
    /\ [][RejectStep => (out'.status = 400 /\ db' = db)]_vars

\* C4: a checkout was rejected for insufficient stock after an earlier one
\* had been served.
C4_Witness ==
    /\ out.op = "checkout" /\ out.status = 400 /\ out.error = "Insufficient stock"
    /\ Len(db.sales) = 1 /\ Cardinality(db.saleItems) = 1

SaleItemsTotal(d, s) ==
    SumOver(SaleItemsOf(d, s), [r \in SaleItemsOf(d, s) |-> r.price * r.qty])

\* The sum of price read at lookup * normalized quantity over the items of
\* the checkout in slot p.
RequestTotal(p) ==
    SumOver(DOMAIN req[p].items,
            [k \in DOMAIN req[p].items |->
                loc[p].snap[req[p].items[k].slug].price * NormQty(req[p].items[k].qty)])

\* C5: the total of every persisted sale is the sum of (price read at lookup
\* * normalized quantity) over the request's items, and so the sum of
\* (price snapshot * qty) over the sale's own items, also when an admin
\* changes a price while the checkout is in flight.
C5_TotalIsSumOfItems ==
    /\ [](\A s \in DOMAIN db.sales : db.sales[s].total = SaleItemsTotal(db, s))
    /\ [][\A p \in Procs :
            (TxStep(p) /\ out'.status = 200) =>
                db'.sales[Len(db'.sales)].total = RequestTotal(p)]_vars

\* C5: a sale is persisted whose item carries a price that is no longer the
\* product's price.
C5_Witness ==
    \E r \in db.saleItems :
        /\ r.productId \in LiveIds(db)
        /\ db.products[r.productId].price # r.price
        /\ db.sales[r.saleId].total = SaleItemsTotal(db, r.saleId)

C7_OneActiveCart ==
    \A u \in Users : Cardinality(ActiveCarts(db, u)) <= 1

\* C7: two first cart accesses of a user overlapped: both found no cart, one
\* created it and the other's create was refused by the unique index.
C7_Witness ==
    /\ out.op = "get" /\ out.status = 0 /\ out.error = "P2002"
    /\ \E u \in Users : Cardinality(ActiveCarts(db, u)) = 1

\* A cart request of slot p is admitted and waits on getOrCreateActiveCart
\* or on its own next database call.
CartAdmitStep(p) == pc[p] = "idle" /\ pc'[p] \notin {"idle", "ck_tx"}

CreateStep(p) == pc[p] = "goc_create" /\ pc'[p] # "goc_create"

\* C8: a successful checkout leaves the caller's ACTIVE cart CHECKED_OUT and
\* the caller with no ACTIVE cart; the caller's next cart access then finds
\* none and creates a cart that is new (its id is no earlier cart's), ACTIVE,
\* the caller's and empty, and GET /cart returns it with no lines.
C8_CheckoutThenFreshCart ==
    [][\A p \in Procs :
         /\ (TxStep(p) /\ out'.status = 200) =>
               /\ \A c \in ActiveCarts(db, req[p].user) :
                     db'.carts[c].status = "CHECKED_OUT"
               /\ ActiveCarts(db', req[p].user) = {}
         /\ CartAdmitStep(p) =>
               (ActiveCarts(db, req'[p].user) = {} <=> pc'[p] = "goc_create")
         /\ CreateStep(p) =>
               LET c == Len(db.carts) + 1
               IN  /\ db'.carts = Append(db.carts, [userId |-> req[p].user, status |-> "ACTIVE"])
                   /\ CartLines(db', c) = {}
                   /\ req[p].op = "get" =>
                        (out'.status = 200 /\ out'.cart = c /\ out'.lines = {})
                   /\ req[p].op # "get" =>
                        (loc'[p].cart = c /\ loc'[p].before = {})]_vars

\* C8: a user has a CHECKED_OUT cart, and GET /cart has just returned
\* another cart, ACTIVE and empty.
C8_Witness ==
    /\ out.op = "get" /\ out.status = 200 /\ out.lines = {}
    /\ \E c1, c2 \in DOMAIN db.carts :
          /\ c1 # c2 /\ out.cart = c2
          /\ db.carts[c1].userId = db.carts[c2].userId
          /\ db.carts[c1].status = "CHECKED_OUT"
          /\ db.carts[c2].status = "ACTIVE"
          /\ CartLines(db, c1) # {}

AddWriteStep(p) == pc[p] = "add_write" /\ pc'[p] = "cart_read"

\* C9: with requests running one at a time, an add leaves exactly one line
\* for its product, whose quantity is the line's quantity before (0 if there
\* was none) plus the normalized quantity, so two successive adds of a and b
\* give a + b; a cart never holds two lines for one product.
C9_AddSumsOneLine ==
    /\ [](\A c \in DOMAIN db.carts : \A i \in DOMAIN db.products :
             Cardinality(LineOf(db, c, i)) <= 1)
    /\ [][\A p \in Procs :
            AddWriteStep(p) =>
               LET c   == loc[p].cart
                   pid == req[p].items[1].productId.n
               IN  /\ Cardinality(LineOf(db', c, pid)) = 1
                   /\ LineQty(db', c, pid) = LineQty(db, c, pid) + NormQty(req[p].items[1].qty)
                   /\ db'.cartItems \ LineOf(db', c, pid) = db.cartItems \ LineOf(db, c, pid)]_vars

\* C9: two requests were made, the second an add, and the cart holds a
\* single line of quantity 1 + 2.
C9_Witness ==
    /\ nreq = 2 /\ nadmin = 0
    /\ out.op = "add" /\ out.status = 200
    /\ out.lines = {[productId |-> 1, qty |-> 3]}

\* The sum of the normalized quantities of the guest entries for product pid.
GuestQty(items, pid) ==
    LET ks == {k \in DOMAIN items : items[k].productId.n = pid}
    IN  SumOver(ks, [k \in ks |-> NormQty(items[k].qty)])

\* The quantity of product pid in the cart as getOrCreateActiveCart returned it.
BeforeQty(p, pid) ==
    LET ls == {l \in loc[p].before : l.productId = pid}
    IN  IF ls = {} THEN 0 ELSE (CHOOSE l \in ls : TRUE).qty

\* C10: with requests running one at a time, when a merge has written its
\* guest list G the cart holds, for every product, at most one line, whose
\* quantity is the quantity before the merge (0 if absent) plus the sum of
\* the normalized quantities of the entries of G for it; products not in G
\* keep their line.
C10_MergeAddsPerProduct ==
    \A p \in Procs :
        (pc[p] = "cart_read" /\ req[p].op = "merge") =>
            \A i \in 1..MaxProducts :
                /\ Cardinality(LineOf(db, loc[p].cart, i)) <= 1
                /\ LineQty(db, loc[p].cart, i) = BeforeQty(p, i) + GuestQty(req[p].items, i)

\* C10: a merge has written a guest list that names twice a product the
\* cart already held, beside a line of another product.
C10_Witness ==
    \E p \in Procs :
        /\ pc[p] = "cart_read" /\ req[p].op = "merge"
        /\ Len(req[p].items) = 2
        /\ req[p].items[1].productId = req[p].items[2].productId
        /\ BeforeQty(p, req[p].items[1].productId.n) > 0
        /\ Cardinality(CartLines(db, loc[p].cart)) = 2

\* A request is received: every receipt counts in nreq or nadmin.
Arrives == nreq' + nadmin' > nreq + nadmin

\* The routes that need a credential and those that need the admin claim.
AdminOnly == AdminProductRoutes \cup AdminUserRoutes \cup FaqAdminRoutes \cup ReviewAdminRoutes
Protected == AdminOnly \cup UserRoutes

\* The request just received is answered with status and nothing else
\* happens: no write, no handler entered.
RefusedWith(status) ==
    /\ out'.op = rx'.route /\ out'.status = status
    /\ db' = db /\ pc' = pc

\* C11: a request for a protected route without a valid signed credential is
\* answered 401, one for an admin-only route with a valid credential that
\* lacks the admin claim is answered 403, and in both cases nothing persisted
\* changes and the handler is not entered; so a protected operation takes
\* effect only with a valid credential, an admin one only with the admin claim.
C11_GuardsProtect ==
    [][Arrives =>
         /\ (rx'.route \in Protected /\ rx'.cred.kind # "token") => RefusedWith(401)
         /\ (rx'.route \in AdminOnly /\ rx'.cred.kind = "token" /\ ~rx'.cred.admin)
               => RefusedWith(403)]_vars

\* C11: after an admin request that went through, a customer's valid token
\* on DELETE /reviews/:id got 403 and the review is still there.
C11_Witness ==
    /\ rx.route = "review_delete" /\ rx.cred = Token(1, "alice", FALSE)
    /\ out.status = 403 /\ nadmin = 1
    /\ db.reviews = SeedReviews

\* A login request is answered (the only step that sends a login response).
LoginStep == nreq' > nreq /\ pc' = pc /\ out'.op = "login"

LoginFailure == Reply("login", 401, "Identifiants invalides", 0, NoCred)

\* C12: a login with an email of no user and a login with an existing email
\* and a wrong password, both giving email and password, get the same status
\* and the same body, and neither sets the auth cookie.
C12_LoginFailuresAlike ==
    /\ [](\A e1, e2 \in LoginEmails \ {NoEmail}, p1, p2 \in LoginPasswords \ {NoPassword} :
            LET r1 == LoginResult(db, e1, p1)
                r2 == LoginResult(db, e2, p2)
            IN  (UserByEmail(db, e1) = {} /\ UserByEmail(db, e2) # {} /\ r2.status # 200)
                    => (r1 = r2 /\ r1.cookie = NoCred))
    /\ [][(LoginStep /\ rx'.email # NoEmail /\ rx'.password # NoPassword
             /\ (\A i \in UserByEmail(db, rx'.email) : ~Compare(rx'.password, db.users[i].password)))
            => out' = LoginFailure]_vars

\* C12: the password of an existing user was refused, after a registration
\* had added a user.
C12_Witness ==
    /\ out = LoginFailure /\ rx.route = "login"
    /\ UserByEmail(db, rx.email) # {}
    /\ Len(db.users) > Len(SeedUsers)

\* PATCH /me is received with a valid token.
MeArrives == Arrives /\ rx'.route = "me_patch" /\ rx'.cred.kind = "token"

\* The request is answered with status; the users table, the handlers and the
\* auth cookie stay as they are.
MeRefused(status) ==
    /\ out'.op = "me_patch" /\ out'.status = status /\ out'.cookie = NoCred
    /\ db' = db /\ pc' = pc

\* C13: PATCH /me without currentPassword is answered 400 and with a
\* currentPassword that does not match the stored hash 401, whatever fields
\* the body tries to change; the user record and the cookie are unchanged,
\* and the user record is only ever updated by a request that passed the check.
C13_MeNeedsCurrentPassword ==
    [][/\ MeArrives =>
            LET b    == rx'.body
                hash == db.users[rx'.cred.id].password
            IN  /\ b.currentPassword = NoPassword => MeRefused(400)
                /\ (b.currentPassword # NoPassword /\ ~Compare(b.currentPassword, hash))
                      => MeRefused(401)
       /\ \A p \in Procs :
            (pc[p] = "me_update" /\ pc'[p] = "idle") =>
                Compare(req[p].body.currentPassword, req[p].me.password)]_vars

\* C13: a PATCH /me asking for a new name, email and password with a wrong
\* current password was answered 401.
C13_Witness ==
    /\ rx.route = "me_patch" /\ rx.cred.kind = "token"
    /\ rx.body = [name |-> "Zed", email |-> "bob", currentPassword |-> "wrong",
                  newPassword |-> "pw9"]
    /\ out.op = "me_patch" /\ out.status = 401
    /\ db.users = SeedUsers

\* No two users share an email.
EmailsUnique ==
    \A i, j \in DOMAIN db.users : db.users[i].email = db.users[j].email => i = j

\* C14: a registration for an email that belongs to a user is answered 409
\* and creates no user, both when the email is found taken on arrival and
\* when another registration took it while this one was in progress; no two
\* users ever share an email.
C14_DuplicateEmailIs409 ==
    /\ []EmailsUnique
    /\ [][/\ (Arrives /\ rx'.route = "register" /\ rx'.password # NoPassword
                /\ UserByEmail(db, rx'.email) # {})
             => (out'.op = "register" /\ out'.status = 409 /\ db' = db /\ pc' = pc)
          /\ \A p \in Procs :
                (pc[p] = "reg_create" /\ pc'[p] = "idle" /\ UserByEmail(db, req[p].email) # {})
                   => (out'.op = "register" /\ out'.status = 409 /\ db' = db)]_vars

\* A stars value the Review table takes: an integer from 1 to 5.
ValidStars(s) == s.t = "number" /\ s.n \in 1..5

\* A request that passed the middlewares of its route.
Admitted == Arrives /\ Middleware(rx'.route, rx'.cred) = Pass

\* C15: a stars value that is no integer from 1 to 5 (absent or non-numeric,
\* zero, negative, above 5, fractional) makes POST /reviews answer 400, and
\* one that is sent makes the admin's PATCH /reviews/:id answer 400; neither
\* creates or changes a row.
C15_BadStarsRefused ==
    [][/\ (Admitted /\ rx'.route = "review_post" /\ ~ValidStars(rx'.stars))
             => (out'.op = "review_post" /\ out'.status = 400 /\ db' = db)
       /\ (Admitted /\ rx'.route = "review_patch" /\ rx'.stars # JUndef
             /\ ~ValidStars(rx'.stars))
             => (out'.op = "review_patch" /\ out'.status = 400 /\ db' = db)]_vars

\* The reviews GET /reviews would return.
Visible(d) == {i \in LiveRows(d.reviews) : d.reviews[i].published}

\* A POST /reviews whose name, text and stars pass the handler's checks.
ValidPost == Admitted /\ rx'.route = "review_post" /\ rx'.name # NoName /\ ValidStars(rx'.stars)

\* C16: a valid public POST /reviews stores one new review with published =
\* false; GET /reviews returns published reviews only; a review that is not
\* visible becomes visible only by a PATCH /reviews/:id of an admin that sets
\* published to true.
C16_PublicReviewAwaitsApproval ==
    [][/\ ValidPost =>
            /\ out'.op = "review_post" /\ out'.status = 201
            /\ Len(db'.reviews) = Len(db.reviews) + 1
            /\ db'.reviews[Len(db'.reviews)].live
            /\ ~db'.reviews[Len(db'.reviews)].published
            /\ Visible(db') = Visible(db)
       /\ (Arrives /\ rx'.route = "review_list") =>
            (out'.op = "review_list" /\ out'.lines \subseteq Visible(db))
       /\ Visible(db') \ Visible(db) # {} =>
            /\ rx'.route = "review_patch" /\ rx'.published = "true"
            /\ rx'.cred.kind = "token" /\ rx'.cred.admin
            /\ Visible(db') \ Visible(db) = {rx'.id}]_vars

\* The parts of C16 the handlers of GET and PATCH answer for, apart from the
\* creation itself.
OnlyApprovedVisible ==
    [][/\ (Arrives /\ rx'.route = "review_list") =>
            (out'.op = "review_list" /\ out'.lines \subseteq Visible(db))
       /\ Visible(db') \ Visible(db) # {} =>
            /\ rx'.route = "review_patch" /\ rx'.published = "true"
            /\ rx'.cred.kind = "token" /\ rx'.cred.admin
            /\ Visible(db') \ Visible(db) = {rx'.id}]_vars

\* Slot p's handler of a cart mutation sends its success response.
MutationAnswered(p) ==
    /\ pc[p] # "idle" /\ pc'[p] = "idle"
    /\ req[p].op \in CartOps \ {"get"}
    /\ out'.op = req[p].op /\ out'.status = 200

\* C17: the success response of every cart mutation (add, set quantity,
\* remove, clear, merge) carries the caller's ACTIVE cart with its lines as
\* they are after the mutation.
C17_MutationsReturnCart ==
    [][\A p \in Procs :
          MutationAnswered(p) =>
              /\ out'.cart \in ActiveCarts(db', req[p].user)
              /\ out'.lines = CartView(db', out'.cart)]_vars

\* The same for the mutations that end with the final findUnique of the cart.
RefreshedExceptClear ==
    [][\A p \in Procs :
          (MutationAnswered(p) /\ req[p].op # "clear") =>
              /\ out'.cart \in ActiveCarts(db', req[p].user)
              /\ out'.lines = CartView(db', out'.cart)]_vars

\* The requested quantity is a whole number that is at least 1.
WholePositive(v) == v.t = "number" /\ v.n >= 1

\* The requested quantity is missing, no number, zero or negative.
Unusable(v) ==
    \/ v.t \in {"undefined", "string"}
    \/ v.t = "number" /\ v.n <= 0
    \/ v.t = "fraction" /\ v.n < 0

\* C18: in checkout, cart add, cart set-quantity and cart merge the quantity
\* used is a whole number that is at least 1, whatever was requested: the
\* requested one when that is a whole number >= 1, and 1 when it is missing,
\* no number, zero or negative.
C18_QuantityWholeAtLeastOne ==
    calc.fn = "quantity" /\ calc.done =>
        /\ WholePositive(calc.result)
        /\ WholePositive(calc.input) => calc.result = calc.input
        /\ Unusable(calc.input) => calc.result = JNum(1)

\* The same without the fractional requests.
WholeRequestsNormalized ==
    (calc.fn = "quantity" /\ calc.done /\ calc.input.t # "fraction") =>
        /\ WholePositive(calc.result)
        /\ WholePositive(calc.input) => calc.result = calc.input
        /\ Unusable(calc.input) => calc.result = JNum(1)

\* Slot p's handler ends.
HandlerEnds(p) == pc[p] # "idle" /\ pc'[p] = "idle"

\* Slot p is about to update or delete a line its cart does not have.
MissingLine(p) ==
    /\ pc[p] \in {"qty_write", "remove_write"}
    /\ LineOf(db, loc[p].cart, req[p].items[1].productId.n) = {}

\* Every handler that was started comes to its end.
HandlersEnd == \A p \in Procs : (pc[p] # "idle") ~> (pc[p] = "idle")

\* C19: every cart request eventually receives an HTTP response: its handler
\* comes to an end and sends a response when it does; PATCH /cart/qty and
\* DELETE /cart/item/:productId for a product without a line in the cart end
\* with an error response and leave the cart as it was.
C19_CartRequestsAnswered ==
    /\ HandlersEnd
    /\ [][\A p \in Procs :
             /\ HandlerEnds(p) => (out'.op = req[p].op /\ out'.status # 0)
             /\ (MissingLine(p) /\ pc'[p] # pc[p]) =>
                   (HandlerEnds(p) /\ out'.status >= 400 /\ db' = db)]_vars

\* The calendar month k months before the month of date t.
MonthBefore(t, k) ==
    LET n == t.y * 12 + t.m - k IN [y |-> n \div 12, m |-> n % 12]

\* The six calendar months ending with the month of date t, oldest first.
TrailingSix(t) == [k \in 1..6 |-> MonthBefore(t, 6 - k)]

\* C20: whatever the current date, days 29 to 31 included, GET /stats
\* returns exactly six buckets: the six consecutive calendar months ending
\* with the current one, oldest first, none missing and none twice.
C20_SixConsecutiveMonths ==
    (calc.fn = "stats" /\ calc.done) => calc.result = TrailingSix(calc.now)

\* The same for the days every month has.
SixMonthsUpToDay28 ==
    (calc.fn = "stats" /\ calc.done /\ calc.now.d <= 28) =>
        calc.result = TrailingSix(calc.now)

\* The sum of the totals of the sales created in the calendar month key.
MonthTotal(sales, key) ==
    SumOver({k \in DOMAIN sales : BucketKey(sales[k]) = key}, [k \in DOMAIN sales |-> k])

\* C21: each bucket GET /stats returns holds the sum of the totals of all
\* the sales created in its calendar month, the first days of the oldest
\* month included, and of no other sale.
C21_BucketSumsItsMonth ==
    (calc.fn = "stats_sum" /\ calc.done) =>
        \A b \in DOMAIN calc.result :
            calc.result[b].sales = MonthTotal(calc.sales, calc.result[b].key)

\* The same when now is the first day of a month.
BucketSumsOnDayOne ==
    (calc.fn = "stats_sum" /\ calc.done /\ calc.now.d = 1) =>
        \A b \in DOMAIN calc.result :
            calc.result[b].sales = MonthTotal(calc.sales, calc.result[b].key)

\* The seed script ends.
SeedEnds == pc[1] = "seed_review" /\ pc'[1] = "idle"

\* C22: a run of the seed script on a database that a run has seeded ends
\* without an error and leaves the database as that run left it.
C22_SeedIdempotent ==
    [][(SeedEnds /\ calc.fn = "seeded") =>
          (out'.op = "seed" /\ out'.status = 0 /\ db' = calc.db)]_vars

\* The users and products of C22 alone: the upserts leave them as they were.
UpsertsIdempotent ==
    [][(SeedEnds /\ calc.fn = "seeded") =>
          (db'.users = calc.db.users /\ db'.products = calc.db.products)]_vars

\* The quantity of product i sold: the sum of qty over its sale items.
SoldQty(d, i) ==
    LET rows == {r \in d.saleItems : r.productId = i}
    IN  SumOver(rows, [r \in rows |-> r.qty])

\* C23: with no admin editing the stock, under every interleaving of
\* checkouts, each product's stock has gone down from its initial value by
\* exactly the quantity of its persisted sale items.
C23_StockMatchesSales ==
    \A i \in DOMAIN db.products :
        InitStock - db.products[i].stock = SoldQty(db, i)

\* Two checkouts that overlapped have both been committed.
C23_Witness ==
    /\ Len(db.sales) >= 2
    /\ \A p \in Procs : pc[p] = "idle"
    /\ db.products[1].stock < 0
    /\ SoldQty(db, 1) = InitStock - db.products[1].stock

\* C24: the lines of a cart whose status is CHECKED_OUT never change, also
\* when a cart request that found the cart ACTIVE writes after a checkout
\* of the same user has committed.
C24_CheckedOutCartFrozen ==
    [][\A c \in DOMAIN db.carts :
          db.carts[c].status = "CHECKED_OUT" => CartLines(db', c) = CartLines(db, c)]_vars

\* C25: an add for an existing product succeeds and raises the quantity of
\* the product's single line, as it is when the add writes, by the quantity
\* added, also when another add of the same user for the same product is in
\* progress: of two overlapping adds of a and b neither fails and the line
\* ends at its previous quantity + a + b.
C25_ConcurrentAddsBothCount ==
    [][\A p \in Procs :
          LET c   == loc[p].cart
              pid == req[p].items[1].productId.n
          IN  (pc[p] = "add_write" /\ pc'[p] # "add_write" /\ pid \in LiveIds(db)) =>
                 /\ pc'[p] = "cart_read"
                 /\ Cardinality(LineOf(db', c, pid)) = 1
                 /\ LineQty(db', c, pid) = LineQty(db, c, pid) + NormQty(req[p].items[1].qty)]_vars

\* C26: a checkout that passed validation succeeds and leaves its user
\* without an ACTIVE cart, whatever the number of CHECKED_OUT carts the user
\* owns already.
C26_CheckoutAgain ==
    [][\A p \in Procs :
          (pc[p] = "ck_tx" /\ pc'[p] = "idle") =>
              /\ out'.op = "checkout" /\ out'.status = 200
              /\ ActiveCarts(db', req[p].user) = {}
              /\ Len(db'.sales) = Len(db.sales) + 1]_vars

\* Every item of the body names a product of the catalog.
AllSlugsKnown(d, items) ==
    \A k \in DOMAIN items : ProductFindManyBySlug(d, {items[k].slug}) # {}

\* C27: whatever the catalog, checkout answers "Unknown product in cart"
\* only to a body with an item whose slug matches no product; a body whose
\* items all name existing products, one slug twice included, is not
\* rejected with that error.
C27_UnknownOnlyWhenUnknown ==
    \A items \in CheckoutBodies :
        CheckoutValidate(db, items) = "Unknown product in cart" => ~AllSlugsKnown(db, items)

\* The same for the bodies that name no slug twice.
UnknownWithoutRepeats ==
    \A items \in CheckoutBodies :
        (Cardinality(ItemSlugs(items)) = Len(items)
            /\ CheckoutValidate(db, items) = "Unknown product in cart")
        => ~AllSlugsKnown(db, items)

\* The quantity the guest list held for product i when the user logged in.
GuestHeld(i) ==
    LET ks == {k \in DOMAIN calc.guest0 : calc.guest0[k].productId.n = i}
    IN  SumOver(ks, [k \in ks |-> NormQty(calc.guest0[k].qty)])

\* No line of the (at first empty) server cart exceeds what the guest held.
MergedOnce ==
    \A c \in DOMAIN db.carts : \A i \in 1..MaxProducts :
        LineQty(db, c, i) <= GuestHeld(i)

\* The guest list is emptied only by a run whose merge was answered 200.
DiscardAfterSuccess ==
    [][(calc.guest # <<>> /\ calc'.guest = <<>>) =>
          \E p \in Procs : calc.fx[p].at = "merge" /\ calc.fx[p].res = 200]_vars

\* C28: after a login with a guest cart, each guest line's quantity is
\* added to the server cart once, however often the effect runs, and the
\* guest list is discarded only after a merge that succeeded.
C28_GuestMergedOnce == []MergedOnce /\ DiscardAfterSuccess

TargetsLine ==
    \A p \in Procs :
        req[p].op \in {"qty", "remove"} => req[p].items[1].productId = JNum(calc.line)

\* With no request in flight the user's cart holds the lines the guest list
\* holds after the same calls.
SameAsGuest ==
    (calc.fn = "page" /\ Quiet) =>
        PageLines(db) = calc.guest

\* C30: for an authenticated user a quantity change or a removal made on the
\* cart page sends a request for the productId of the line acted on, and
\* leaves the cart as the same call leaves a guest cart.
C30_PageEditsReachLine == TargetsLine /\ SameAsGuest

====
